---------------------------- MODULE Spec2Model ----------------------------
(***************************************************************************)
(* A model of the NetLifeGuru router: route registration (pattern          *)
(* compiler, method bitmask, radix tree, static-route map), the pooled     *)
(* per-request Context and the panic-guarded dispatcher Router.ServeHTTP.  *)
(*                                                                         *)
(* Strings are sequences of one-character strings.  Two kinds of text are  *)
(* kept as single tokens because the router never looks inside them: an    *)
(* HTTP method name ("GET") and the name of a segment pattern              *)
(* ("isDigits", "[a-z]+").                                                 *)
(***************************************************************************)
EXTENDS Integers, Sequences, FiniteSets, TLC

VARIABLES
    radixRoot,      \* Router.radixRoot: the radix tree over skeletons
    staticRoutes,   \* Router.staticRoutes: url -> RouteEntry
    nRoutes,        \* number of HandleFunc calls made so far
    recovery,       \* Router.recovery: "nil" or "set"
    notFound,       \* Router.notFound: "nil" or "set"
    exited,         \* TRUE once a configuration error has ended the process
    ctxs,           \* every Context allocated so far, by identity
    pool,           \* contextPool: how many times each Context is pooled
    req,            \* the in-flight requests (one ServeHTTP call each)
    middlewares,    \* Router.middlewares, in registration order
    ready,          \* Router.ready
    stop,           \* MultiListenAndServe: signals buffered in the stop channel
    servers,        \* MultiListenAndServe: the servers slice
    wg,             \* MultiListenAndServe: the WaitGroup counter
    mainPc,         \* MultiListenAndServe: where the calling goroutine stands
    workerPc,       \* MultiListenAndServe: where each worker goroutine stands
    server,         \* the http.Server of each worker, and its Shutdown call
    call,           \* a call of a pure function: its argument and its result
    clock,          \* time.Now()
    lastRequest,    \* requestCounter.lastRequest: key -> time of the last admission
    limiter,        \* the RateLimit calls under way, one per goroutine
    answers         \* the RateLimit calls that have returned, in order of return

\* The variables of the rate limiter.
rateVars == <<clock, lastRequest, limiter, answers>>

\* The variables of MultiListenAndServe and of the readiness flag.
lifeVars == <<ready, stop, servers, wg, mainPc, workerPc, server>>

vars == <<radixRoot, staticRoutes, nRoutes, recovery, notFound, exited, ctxs, pool, req,
          middlewares, lifeVars, call, rateVars>>

(***************************************************************************)
(* Bounds of the model.                                                    *)
(***************************************************************************)
MaxRoutes == 2      \* HandleFunc calls per run
NumCPU == 2         \* runtime.NumCPU(): worker goroutines per listener
MaxInFlight == 2    \* ServeHTTP calls that can be in flight together

(***************************************************************************)
(* Method bitmask (one bit per method).                                    *)
(***************************************************************************)
GET == 1
POST == 2
PUT == 4
DELETE == 8
PATCH == 16
HEAD == 32
OPTIONS == 64
ANY == 128

RECURSIVE BitAnd(_, _)
BitAnd(a, b) ==
    IF a = 0 \/ b = 0 THEN 0
    ELSE (a % 2) * (b % 2) + 2 * BitAnd(a \div 2, b \div 2)

RECURSIVE BitOr(_, _)
BitOr(a, b) ==
    IF a = 0 THEN b
    ELSE IF b = 0 THEN a
    ELSE (IF (a % 2) + (b % 2) > 0 THEN 1 ELSE 0) + 2 * BitOr(a \div 2, b \div 2)

methodMap ==
    [m \in {"GET", "POST", "PUT", "DELETE", "PATCH", "HEAD", "OPTIONS", "ANY"} |->
        CASE m = "GET" -> GET
          [] m = "POST" -> POST
          [] m = "PUT" -> PUT
          [] m = "DELETE" -> DELETE
          [] m = "PATCH" -> PATCH
          [] m = "HEAD" -> HEAD
          [] m = "OPTIONS" -> OPTIONS
          [] m = "ANY" -> ANY]

\* A run of several tokens without a space between them is one unknown word.
getMethodIndex(method) ==
    IF Len(method) = 1 /\ method[1] \in DOMAIN methodMap
    THEN methodMap[method[1]]
    ELSE 0 - 128

indexToBit(i) ==
    CASE i = GET -> 0
      [] i = POST -> 1
      [] i = PUT -> 2
      [] i = DELETE -> 3
      [] i = PATCH -> 4
      [] i = HEAD -> 5
      [] i = OPTIONS -> 6
      [] i = ANY -> 7
      [] OTHER -> 7

getBitmaskIndex(m) ==
    CASE m = "GET" -> 1
      [] m = "POST" -> 2
      [] m = "PUT" -> 4
      [] m = "DELETE" -> 8
      [] m = "PATCH" -> 16
      [] m = "HEAD" -> 32
      [] m = "OPTIONS" -> 64
      [] OTHER -> 0

\* The scan of MethodsToBitmask from position i on: start is the position
\* where the current word began (0: between words).
RECURSIVE scanMethods(_, _, _, _, _)
scanMethods(methods, i, start, bitmask, seen) ==
    IF i > Len(methods)
    THEN IF start # 0
         THEN LET index == getMethodIndex(SubSeq(methods, start, Len(methods)))
              IN  IF index = 128 THEN 127
                  ELSE IF index < 0 THEN 0 - 1
                  ELSE IF indexToBit(index) \notin seen THEN BitOr(bitmask, index)
                  ELSE bitmask
         ELSE bitmask
    ELSE IF methods[i] # " " /\ start = 0
         THEN scanMethods(methods, i + 1, i, bitmask, seen)
    ELSE IF methods[i] = " " /\ start # 0
         THEN LET index == getMethodIndex(SubSeq(methods, start, i - 1))
              IN  IF index = 128 THEN 127
                  ELSE IF index < 0 THEN 0 - 1
                  ELSE IF indexToBit(index) \notin seen
                       THEN scanMethods(methods, i + 1, 0, BitOr(bitmask, index),
                                        seen \cup {indexToBit(index)})
                       ELSE scanMethods(methods, i + 1, 0, bitmask, seen)
    ELSE scanMethods(methods, i + 1, start, bitmask, seen)

MethodsToBitmask(methods) == scanMethods(methods, 1, 0, 0, {})

(***************************************************************************)
(* Segment matchers and the regular-expression fallback.                   *)
(***************************************************************************)
_STRING == 1
_PATTERN == 2
_MATCH == 3
_SUBMATCH == 4

LowerChars ==
    {"a", "b", "c", "d", "e", "f", "g", "h", "i", "j", "k", "l", "m",
     "n", "o", "p", "q", "r", "s", "t", "u", "v", "w", "x", "y", "z"}

DigitChars == {"0", "1", "2", "3", "4", "5", "6", "7", "8", "9"}

isAny(s) == TRUE

isLowerAlpha(s) == s # <<>> /\ \A i \in 1..Len(s) : s[i] \in LowerChars

isDigits(s) == s # <<>> /\ \A i \in 1..Len(s) : s[i] \in DigitChars

UpperChars ==
    {"A", "B", "C", "D", "E", "F", "G", "H", "I", "J", "K", "L", "M",
     "N", "O", "P", "Q", "R", "S", "T", "U", "V", "W", "X", "Y", "Z"}

\* Characters outside ASCII, by name: a letter and a decimal digit.
OtherLetters == {"e-acute"}

OtherDigits == {"arabic-indic-3"}

\* unicode.IsLetter and unicode.IsDigit
unicodeIsLetter(c) == c \in LowerChars \cup UpperChars \cup OtherLetters

unicodeIsDigit(c) == c \in DigitChars \cup OtherDigits

isWordChar(c) == c \in LowerChars \cup UpperChars \cup DigitChars \cup {"_"}

isUpperAlpha(s) == s # <<>> /\ \A i \in 1..Len(s) : s[i] \in UpperChars

isAlpha(s) == s # <<>> /\ \A i \in 1..Len(s) : unicodeIsLetter(s[i])

isAlnum(s) ==
    s # <<>> /\ \A i \in 1..Len(s) : unicodeIsLetter(s[i]) \/ unicodeIsDigit(s[i])

isWord(s) ==
    s # <<>> /\ \A i \in 1..Len(s) :
                  s[i] \in LowerChars \cup UpperChars \cup DigitChars \cup {"_"}

isSlugSafe(s) == s # <<>> /\ \A i \in 1..Len(s) : isWordChar(s[i]) \/ s[i] = "-"

isSlug(s) == s # <<>> /\ \A i \in 1..Len(s) : s[i] \in LowerChars \cup DigitChars \cup {"-"}

isHex(s) ==
    s # <<>> /\ \A i \in 1..Len(s) :
                  s[i] \in DigitChars \cup {"a", "b", "c", "d", "e", "f"}
                            \cup {"A", "B", "C", "D", "E", "F"}

isUpperAlnum(s) == s # <<>> /\ \A i \in 1..Len(s) : s[i] \in UpperChars \cup DigitChars

\* The matcher functions the tables of this model register, by name (a
\* MatchFunc value is modelled by its name).
callMatchFunc(fn, s) ==
    CASE fn = "isLowerAlpha" -> isLowerAlpha(s)
      [] fn = "isDigits" -> isDigits(s)
      [] fn = "isAny" -> isAny(s)
      [] fn = "alwaysTrue" -> TRUE

\* Every named matcher, by name.
callNamedMatcher(fn, s) ==
    CASE fn = "isLowerAlpha" -> isLowerAlpha(s)
      [] fn = "isDigits" -> isDigits(s)
      [] fn = "isUpperAlpha" -> isUpperAlpha(s)
      [] fn = "isAlpha" -> isAlpha(s)
      [] fn = "isAlnum" -> isAlnum(s)
      [] fn = "isWord" -> isWord(s)
      [] fn = "isSlugSafe" -> isSlugSafe(s)
      [] fn = "isSlug" -> isSlug(s)
      [] fn = "isHex" -> isHex(s)
      [] fn = "isUpperAlnum" -> isUpperAlnum(s)
      [] fn = "isAny" -> isAny(s)
      [] fn = "alwaysTrue" -> TRUE

FunctionMatchers ==
    [k \in {<<"isLowerAlpha">>, <<"isDigits">>, <<"any">>} |->
        CASE k = <<"isLowerAlpha">> -> "isLowerAlpha"
          [] k = <<"isDigits">> -> "isDigits"
          [] k = <<"any">> -> "isAny"]

PatternMatchers ==
    [k \in {<<"[a-z]+">>, <<"[0-9]+">>, <<"\\d+">>, <<".*">>} |->
        CASE k = <<"[a-z]+">> -> "isLowerAlpha"
          [] k = <<"[0-9]+">> -> "isDigits"
          [] k = <<"\\d+">> -> "isDigits"
          [] k = <<".*">> -> "alwaysTrue"]

\* regexp's whole-text match of "^" + pt + "$": pt is a sequence of tokens, a
\* character class with "+", a group parenthesis, or a literal character.
RECURSIVE regexMatch(_, _)
regexMatch(pt, s) ==
    IF pt = <<>> THEN s = <<>>
    ELSE IF Head(pt) \in {"(", ")"} THEN regexMatch(Tail(pt), s)
    ELSE IF Head(pt) \in {"[a-z]+", "[0-9]+", "\\d+"}
         THEN LET class == IF Head(pt) = "[a-z]+" THEN LowerChars ELSE DigitChars
              IN  \E n \in 1..Len(s) :
                     /\ \A i \in 1..n : s[i] \in class
                     /\ regexMatch(Tail(pt), SubSeq(s, n + 1, Len(s)))
    ELSE s # <<>> /\ s[1] = Head(pt) /\ regexMatch(Tail(pt), Tail(s))

(***************************************************************************)
(* Route pattern compiler.                                                 *)
(***************************************************************************)
removeWrapper(s, start, end) ==
    IF Len(s) >= 2 /\ s[1] = start /\ s[Len(s)] = end
    THEN SubSeq(s, 2, Len(s) - 1)
    ELSE s

\* The name of the matcher found, or "nil".
findPatterns(str) ==
    LET possibleRegExpPattern == removeWrapper(str, "(", ")")
    IN  IF possibleRegExpPattern \in DOMAIN PatternMatchers
        THEN PatternMatchers[possibleRegExpPattern]
        ELSE IF possibleRegExpPattern \in DOMAIN FunctionMatchers
        THEN FunctionMatchers[possibleRegExpPattern]
        ELSE "nil"

\* The number of capturing groups of a pattern text.
countCaptureGroups(pt) == Cardinality({i \in 1..Len(pt) : pt[i] = "("})

\* strings.IndexByte, 1-based; 0 when the byte is absent.
IndexByte(str, c) ==
    IF \E i \in 1..Len(str) : str[i] = c
    THEN CHOOSE i \in 1..Len(str) : str[i] = c /\ \A j \in 1..(i - 1) : str[j] # c
    ELSE 0

NoPattern == [Slug |-> <<>>, Type |-> 0, RegexCompiled |-> <<>>, Fn |-> "nil"]

\* parseSlug: the Pattern of segment s, the running isStatic and reqValidation
\* flags, and fatal = TRUE where the code ends the process (os.Exit(3)).
parseSlug(isStatic, reqValidation, s) ==
    IF \/ (Len(s) >= 2 /\ s[1] = "<" /\ s[Len(s)] = ">")
       \/ (Len(s) >= 2 /\ s[1] = "{" /\ s[Len(s)] = "}")
    THEN LET str == SubSeq(s, 2, Len(s) - 1)
             i == IndexByte(str, ":")
             name == IF i # 0 THEN SubSeq(str, 1, i - 1) ELSE str
             pt == IF i = 0 THEN <<"any">>
                   ELSE IF i + 1 <= Len(str) THEN SubSeq(str, i + 1, Len(str))
                   ELSE <<>>
             rv == IF pt # <<"any">> THEN TRUE ELSE reqValidation
             slugPattern ==
                 IF countCaptureGroups(pt) > 0
                 THEN [Slug |-> name, Type |-> _SUBMATCH, RegexCompiled |-> pt, Fn |-> "nil"]
                 ELSE IF findPatterns(pt) # "nil"
                 THEN [Slug |-> name, Type |-> _PATTERN, RegexCompiled |-> <<>>,
                       Fn |-> findPatterns(pt)]
                 ELSE [Slug |-> name, Type |-> _MATCH, RegexCompiled |-> pt, Fn |-> "nil"]
         IN  IF pt = <<>>
             THEN [pattern |-> NoPattern, isStatic |-> FALSE, reqValidation |-> reqValidation,
                   fatal |-> TRUE]
             ELSE [pattern |-> slugPattern, isStatic |-> FALSE, reqValidation |-> rv,
                   fatal |-> FALSE]
    ELSE [pattern |-> [Slug |-> s, Type |-> _STRING, RegexCompiled |-> <<>>, Fn |-> "nil"],
          isStatic |-> isStatic, reqValidation |-> reqValidation, fatal |-> FALSE]

\* splitPath from position i on: start is where the current segment began
\* (0: none open).
RECURSIVE splitFrom(_, _, _, _)
splitFrom(path, i, start, segments) ==
    IF i > Len(path)
    THEN IF start # 0 THEN Append(segments, SubSeq(path, start, Len(path))) ELSE segments
    ELSE IF path[i] # "/"
         THEN splitFrom(path, i + 1, IF start = 0 THEN i ELSE start, segments)
    ELSE IF start # 0
         THEN splitFrom(path, i + 1, 0, Append(segments, SubSeq(path, start, i - 1)))
    ELSE splitFrom(path, i + 1, 0, segments)

splitPath(path) == splitFrom(path, 1, 0, <<>>)

\* strings.Join(parts, "/")
RECURSIVE Join(_)
Join(parts) ==
    IF parts = <<>> THEN <<>>
    ELSE IF Len(parts) = 1 THEN parts[1]
    ELSE parts[1] \o <<"/">> \o Join(Tail(parts))

\* The loop of preparePattern over the segments, from segment k on.
RECURSIVE prepareFrom(_, _, _)
prepareFrom(segments, k, acc) ==
    IF k > Len(segments) \/ acc.fatal THEN acc
    ELSE LET r == parseSlug(acc.isStatic, acc.reqValidation, segments[k])
             slugPart == IF r.pattern.Type # _STRING THEN <<"*">> ELSE r.pattern.Slug
         IN  prepareFrom(segments, k + 1,
                 [patterns |-> Append(acc.patterns, r.pattern),
                  parts |-> Append(acc.parts, slugPart),
                  isStatic |-> r.isStatic,
                  reqValidation |-> r.reqValidation,
                  fatal |-> r.fatal])

preparePattern(url) ==
    LET acc == prepareFrom(splitPath(url), 1,
                   [patterns |-> <<>>, parts |-> <<>>, isStatic |-> TRUE,
                    reqValidation |-> FALSE, fatal |-> FALSE])
    IN  [patterns |-> acc.patterns, isStatic |-> acc.isStatic,
         reqValidation |-> acc.reqValidation, radixURL |-> <<"/">> \o Join(acc.parts),
         fatal |-> acc.fatal]

(***************************************************************************)
(* Radix tree.  A RadixNode is a record; insert returns the node as the    *)
(* code leaves it.                                                         *)
(***************************************************************************)
EmptyNode == [prefix |-> <<>>, children |-> <<>>, isLeaf |-> FALSE, entries |-> <<>>]

Min(a, b) == IF a < b THEN a ELSE b

RECURSIVE lcpFrom(_, _, _)
lcpFrom(a, b, i) ==
    IF i < Min(Len(a), Len(b)) /\ a[i + 1] = b[i + 1] THEN lcpFrom(a, b, i + 1) ELSE i

\* A common-prefix length that does not compare the bytes.
lcpShorterLength(a, b) == Min(Len(a), Len(b))

longestCommonPrefixStr(a, b) == lcpFrom(a, b, 0)

\* The loop of matchPrefixWithStarStr with i bytes of prefix and j bytes of
\* key consumed (both counted from 0, as in the code).
RECURSIVE matchFrom(_, _, _, _)
matchFrom(prefix, key, i, j) ==
    IF i >= Len(prefix) THEN [consumed |-> j, ok |-> TRUE]
    ELSE IF prefix[i + 1] = "*"
         THEN IF j < Len(key) /\ key[j + 1] # "/"
              THEN matchFrom(prefix, key, i, j + 1)
              ELSE matchFrom(prefix, key, i + 1, j)
    ELSE IF j >= Len(key) \/ prefix[i + 1] # key[j + 1]
         THEN [consumed |-> 0, ok |-> FALSE]
    ELSE matchFrom(prefix, key, i + 1, j + 1)

matchPrefixWithStarStr(prefix, key) == matchFrom(prefix, key, 0, 0)

\* The children insert does not skip: a non-empty prefix that starts with the
\* key's first byte (so the common prefix is not empty).
insertTakes(child, key) ==
    /\ Len(child.prefix) # 0
    /\ key[1] = child.prefix[1]
    /\ longestCommonPrefixStr(child.prefix, key) # 0

RECURSIVE insert(_, _, _)
insert(node, key, entry) ==
    IF \E c \in 1..Len(node.children) : insertTakes(node.children[c], key)
    THEN LET c == CHOOSE d \in 1..Len(node.children) :
                      /\ insertTakes(node.children[d], key)
                      /\ \A e \in 1..(d - 1) : ~insertTakes(node.children[e], key)
             child == node.children[c]
             lcp == longestCommonPrefixStr(child.prefix, key)
             split ==
                 IF lcp < Len(child.prefix)
                 THEN [prefix |-> SubSeq(child.prefix, 1, lcp),
                       children |-> <<[prefix |-> SubSeq(child.prefix, lcp + 1, Len(child.prefix)),
                                       children |-> child.children,
                                       isLeaf |-> child.isLeaf,
                                       entries |-> child.entries]>>,
                       isLeaf |-> FALSE,
                       entries |-> <<>>]
                 ELSE child
             after ==
                 IF lcp = Len(child.prefix) /\ lcp = Len(key)
                 THEN [child EXCEPT !.isLeaf = TRUE, !.entries = Append(@, entry)]
                 ELSE IF lcp < Len(key)
                 THEN insert(split, SubSeq(key, lcp + 1, Len(key)), entry)
                 ELSE [split EXCEPT !.isLeaf = TRUE, !.entries = Append(@, entry)]
         IN  [node EXCEPT !.children[c] = after]
    ELSE [node EXCEPT !.children =
              Append(@, [prefix |-> key, children |-> <<>>, isLeaf |-> TRUE,
                         entries |-> <<entry>>])]

insertNode(root, key, entry) == insert(root, key, entry)

\* dfs: found, and the entries it appends to ctx.Entries, in order.
\* dfsChildren is one of its two loops over n.children, from child c on:
\* wild = FALSE the literal-led children, wild = TRUE the wildcard-led ones.
RECURSIVE dfs(_, _)
RECURSIVE dfsChildren(_, _, _, _)
dfsChildren(n, k, c, wild) ==
    IF c > Len(n.children) THEN [found |-> FALSE, entries |-> <<>>]
    ELSE LET ch == n.children[c]
             rest == dfsChildren(n, k, c + 1, wild)
             skip == \/ Len(ch.prefix) = 0
                     \/ (~wild /\ ch.prefix[1] = "*")
                     \/ (wild /\ ch.prefix[1] # "*")
                     \/ (~wild /\ k[1] # ch.prefix[1])
             m == matchPrefixWithStarStr(ch.prefix, k)
         IN  IF skip \/ ~m.ok THEN rest
             ELSE LET sub == dfs(ch, SubSeq(k, m.consumed + 1, Len(k)))
                  IN  [found |-> sub.found \/ rest.found,
                       entries |-> sub.entries \o rest.entries]

dfs(n, k) ==
    IF Len(k) = 0
    THEN IF n.isLeaf THEN [found |-> TRUE, entries |-> n.entries]
         ELSE [found |-> FALSE, entries |-> <<>>]
    ELSE LET lit == dfsChildren(n, k, 1, FALSE)
             star == dfsChildren(n, k, 1, TRUE)
         IN  [found |-> lit.found \/ star.found, entries |-> lit.entries \o star.entries]

searchAll(root, key) == dfs(root, key)

(***************************************************************************)
(* Route registration.                                                     *)
(***************************************************************************)
NoEntry == [Route |-> <<>>, Patterns |-> <<>>, Handler |-> 0, Bitmask |-> 0,
            Validation |-> FALSE]

\* r.staticRoutes[url] = entry
staticPut(routes, url, entry) ==
    [u \in (DOMAIN routes) \cup {url} |-> IF u = url THEN entry ELSE routes[u]]

\* t := r.staticRoutes[p]: the zero RouteEntry when p is no key.
staticGet(routes, p) == IF p \in DOMAIN routes THEN routes[p] ELSE NoEntry

\* No request has been accepted yet: registration is setup-time work.
SettingUp == ctxs = <<>> /\ \A r \in DOMAIN req : req[r].pc = "idle"

\* HandleFunc(url, methods, fn)
HandleFuncWith(url, methods, fn) ==
    /\ ~exited
    /\ SettingUp
    /\ LET pp == preparePattern(url)
           entry == [Route |-> url,
                     Patterns |-> pp.patterns,
                     Handler |-> fn,
                     Bitmask |-> MethodsToBitmask(methods),
                     Validation |-> pp.reqValidation]
       IN  IF pp.fatal \/ entry.Bitmask < 0
           THEN /\ exited' = TRUE
                /\ UNCHANGED <<radixRoot, staticRoutes, nRoutes>>
           ELSE /\ staticRoutes' = IF pp.isStatic THEN staticPut(staticRoutes, url, entry)
                                   ELSE staticRoutes
                /\ radixRoot' = insertNode(radixRoot, pp.radixURL, entry)
                /\ nRoutes' = nRoutes + 1
                /\ UNCHANGED exited
    /\ UNCHANGED <<recovery, notFound, ctxs, pool, req>>
    /\ UNCHANGED <<middlewares, lifeVars, call, rateVars>>

\* HandleFunc with a handler of the user's, identified by the number of the
\* call.
HandleFunc(url, methods) == HandleFuncWith(url, methods, nRoutes + 1)

\* The identity of the handler that Ready registers.
ReadyFn == 0 - 1

\* Ready()
Ready == HandleFuncWith(<<"/", "ready">>, <<"GET">>, ReadyFn)

\* Use(m)
Use(m) ==
    /\ ~exited
    /\ SettingUp
    /\ middlewares' = Append(middlewares, m)
    /\ UNCHANGED <<radixRoot, staticRoutes, nRoutes, recovery, notFound, exited, ctxs,
                   pool, req, lifeVars, call, rateVars>>

\* HandleFunc while the table holds fewer than n routes.
HandleFuncUpTo(n, url, methods) == nRoutes < n /\ HandleFunc(url, methods)

\* Recovery(fn)
Recovery ==
    /\ ~exited
    /\ SettingUp
    /\ recovery = "nil"
    /\ recovery' = "set"
    /\ UNCHANGED <<radixRoot, staticRoutes, nRoutes, notFound, exited, ctxs, pool, req>>
    /\ UNCHANGED <<middlewares, lifeVars, call, rateVars>>

\* NotFound(fn)
NotFound ==
    /\ ~exited
    /\ SettingUp
    /\ notFound = "nil"
    /\ notFound' = "set"
    /\ UNCHANGED <<radixRoot, staticRoutes, nRoutes, recovery, exited, ctxs, pool, req>>
    /\ UNCHANGED <<middlewares, lifeVars, call, rateVars>>

(***************************************************************************)
(* The response sink (http.ResponseWriter).  status is the status line the *)
(* client gets: the first one written.  headerWrites counts the status     *)
(* lines submitted, the implicit 200 of a first Write included.            *)
(***************************************************************************)
NewWriter == [status |-> 0, headerWrites |-> 0, body |-> <<>>, allow |-> <<>>]

WriteHeader(w, code) ==
    [w EXCEPT !.headerWrites = @ + 1, !.status = IF @ = 0 THEN code ELSE @]

Write(w, chunk) ==
    LET w1 == IF w.status = 0 THEN WriteHeader(w, 200) ELSE w
    IN  [w1 EXCEPT !.body = Append(@, chunk)]

\* http.Error(w, msg, code)
httpError(w, msg, code) == Write(WriteHeader(w, code), msg)

maskToAllowHeader(mask) ==
    LET have == (IF BitAnd(mask, GET) # 0 THEN {"GET", "HEAD"} ELSE {})
                \cup (IF BitAnd(mask, POST) # 0 THEN {"POST"} ELSE {})
                \cup (IF BitAnd(mask, PUT) # 0 THEN {"PUT"} ELSE {})
                \cup (IF BitAnd(mask, DELETE) # 0 THEN {"DELETE"} ELSE {})
                \cup (IF BitAnd(mask, PATCH) # 0 THEN {"PATCH"} ELSE {})
                \cup {"OPTIONS"}
        order == <<"GET", "HEAD", "POST", "PUT", "DELETE", "PATCH", "OPTIONS">>
    IN  SelectSeq(order, LAMBDA m : m \in have)

write405(w, mask) ==
    LET allow == maskToAllowHeader(mask)
        w1 == IF allow # <<>> THEN [w EXCEPT !.allow = allow] ELSE w
    IN  Write(WriteHeader(w1, 405), "405 method not allowed")

(***************************************************************************)
(* User code.  What a handler, a NotFound handler or a recovery handler    *)
(* does is not the router's: a behaviour says whether it writes a status   *)
(* and a body first, and whether it then returns or panics, and with what  *)
(* kind of value.                                                          *)
(***************************************************************************)
PanicKinds == {"error", "string", "other"}

Behaviours == [pre : BOOLEAN, out : {"return"} \cup PanicKinds]

Plain == [pre |-> TRUE, out |-> "return"]

\* The sink after the function ran, and the panic it raised ("none": it returned).
callUser(w, b, code, chunk) ==
    [w |-> IF b.pre THEN Write(WriteHeader(w, code), chunk) ELSE w,
     panic |-> IF b.out = "return" THEN "none" ELSE b.out]

\* A getErrorMessage without its default case.
getErrorMessageNoDefault(message) ==
    CASE message = "error" -> "v"
      [] message = "string" -> "panic occurred: v"
      [] OTHER -> "nil"

\* getErrorMessage: never nil.
getErrorMessage(message) ==
    CASE message = "error" -> "v"
      [] message = "string" -> "panic occurred: v"
      [] OTHER -> "panic occurred with unknown type: v"

(***************************************************************************)
(* Context and its pool.                                                   *)
(***************************************************************************)
\* A Context as contextPool.New makes it.  Data and paramMap are maps (a nil
\* paramMap is the record with isNil = TRUE; DataIsNil says whether Data is
\* nil); capParams, capSegments and capEntries are the capacities of the
\* slices.  The requests of this model hold fewer elements than a new
\* slice's capacity, so that no append reallocates.
NoData == [k \in {} |-> <<>>]

\* The capacity above which reset drops a slice, and the capacity of a new
\* slice.
CapCeiling == 1024

NewCap == 8

NilParamMap == [isNil |-> TRUE, m |-> NoData]

NewContext ==
    [Params |-> <<>>, Segments |-> <<>>, Entries |-> <<>>, Data |-> NoData,
     paramMap |-> NilParamMap, aborted |-> FALSE, DataIsNil |-> FALSE,
     capParams |-> NewCap, capSegments |-> NewCap, capEntries |-> NewCap]

\* A reset that leaves Data and the aborted flag as they are.
resetSlicesOnly(c) ==
    [c EXCEPT !.Params = <<>>, !.Segments = <<>>, !.Entries = <<>>]

\* A reset that keeps the slices whatever their capacity.
resetKeepsCapacity(c) ==
    [c EXCEPT !.aborted = FALSE, !.Params = <<>>, !.Segments = <<>>, !.Entries = <<>>,
              !.Data = NoData, !.paramMap = NilParamMap]

\* c.reset(): the keys of Data are deleted, the map stays.
reset(c) ==
    [c EXCEPT !.aborted = FALSE, !.Params = <<>>, !.Segments = <<>>, !.Entries = <<>>,
              !.Data = NoData, !.paramMap = NilParamMap,
              !.capEntries = IF @ > CapCeiling THEN NewCap ELSE @,
              !.capParams = IF @ > CapCeiling THEN NewCap ELSE @,
              !.capSegments = IF @ > CapCeiling THEN NewCap ELSE @]

\* c.Abort()
Abort(c) == [c EXCEPT !.aborted = TRUE]

\* c.Set(key, value)
Set(c, key, value) ==
    [c EXCEPT !.Data = [k \in (DOMAIN @) \cup {key} |-> IF k = key THEN value ELSE @[k]],
              !.DataIsNil = FALSE]

\* The loop of SetParams over entry.Patterns from pattern number depth on.
RECURSIVE setParamsFrom(_, _, _, _)
setParamsFrom(patterns, segments, depth, params) ==
    IF depth > Len(patterns) THEN params
    ELSE IF patterns[depth].Type = _STRING
         THEN setParamsFrom(patterns, segments, depth + 1, params)
    ELSE IF depth > Len(segments) THEN params
    ELSE setParamsFrom(patterns, segments, depth + 1,
             Append(params, [Key |-> patterns[depth].Slug, Value |-> segments[depth]]))

\* A SetParams that binds the literal segments too.
SetParamsEverySegment(c) ==
    IF Len(c.Params) > 0 \/ Len(c.Entries) = 0 THEN c
    ELSE [c EXCEPT !.Params =
              [i \in 1..Min(Len(c.Entries[1].Patterns), Len(c.Segments)) |->
                  [Key |-> c.Entries[1].Patterns[i].Slug, Value |-> c.Segments[i]]]]

\* c.SetParams()
SetParams(c) ==
    IF Len(c.Params) > 0 \/ Len(c.Entries) = 0 THEN c
    ELSE [c EXCEPT !.Params = setParamsFrom(c.Entries[1].Patterns, c.Segments, 1, c.Params)]

\* c.Param(key): the pair it returns; the Context is left as SetParams(c).
Param(c, key) ==
    LET ps == SetParams(c).Params
    IN  IF \E i \in 1..Len(ps) : ps[i].Key = key
        THEN [value |-> ps[CHOOSE i \in 1..Len(ps) :
                               /\ ps[i].Key = key
                               /\ \A j \in 1..(i - 1) : ps[j].Key # key].Value,
              ok |-> TRUE]
        ELSE [value |-> <<>>, ok |-> FALSE]

\* The map ParamMap builds from Params: a later Par of a key replaces an
\* earlier one.
paramsToMap(ps) ==
    [k \in {ps[i].Key : i \in 1..Len(ps)} |->
        ps[CHOOSE i \in 1..Len(ps) :
               ps[i].Key = k /\ \A j \in (i + 1)..Len(ps) : ps[j].Key # k].Value]

\* c.ParamMap(): the Context it leaves.
ParamMap(c) ==
    LET d == SetParams(c)
    IN  IF d.paramMap.isNil
        THEN [d EXCEPT !.paramMap = [isNil |-> FALSE, m |-> paramsToMap(d.Params)]]
        ELSE d

\* What a handler does with its Context: calls Param for every name of
\* ParamNames, calls ParamMap, calls Set, calls Abort.
CtxUses == [param : BOOLEAN, paramMap : BOOLEAN, set : BOOLEAN, abort : BOOLEAN]

NoUse == [param |-> FALSE, paramMap |-> FALSE, set |-> FALSE, abort |-> FALSE]

ParamNames == { <<"x">>, <<"y">>, <<"a">>, <<"b">> }

useCtx(c, u) ==
    LET c1 == IF u.param THEN SetParams(c) ELSE c
        c2 == IF u.paramMap THEN ParamMap(c1) ELSE c1
        c3 == IF u.set THEN Set(c2, <<"k">>, <<"v">>) ELSE c2
    IN  IF u.abort THEN Abort(c3) ELSE c3

Pooled == {id \in DOMAIN pool : pool[id] > 0}

IdleReq == [pc |-> "idle"]

\* No call of a pure function is under way.
NoCall == [pc |-> "none", methods |-> <<>>, result |-> 0]

\* An http.Server nobody has made yet.
NoServer == [created |-> FALSE, shutdown |-> "no"]

(***************************************************************************)
(* Router.ServeHTTP: routing.                                              *)
(***************************************************************************)
\* One candidate's pattern loop from pattern number depth on: "pass", "fail"
\* (continue outer), or "panic" where ctx.Segments[depth] does not exist.
RECURSIVE checkPatterns(_, _, _)
checkPatterns(entry, segments, depth) ==
    IF depth > Len(entry.Patterns) THEN "pass"
    ELSE IF depth > Len(segments) THEN "panic"
    ELSE LET p == entry.Patterns[depth]
             segment == segments[depth]
             ok == CASE p.Type = _MATCH -> regexMatch(p.RegexCompiled, segment)
                     [] p.Type = _PATTERN -> callMatchFunc(p.Fn, segment)
                     [] p.Type = _SUBMATCH -> regexMatch(p.RegexCompiled, segment)
                     [] OTHER -> TRUE
         IN  IF ok THEN checkPatterns(entry, segments, depth + 1) ELSE "fail"

\* The candidate loop from candidate i on: what ends it (kind "run": entry
\* won; "panic"; "none": the loop ran out), foundPath and allowedMask.
RECURSIVE scanCandidates(_, _, _, _, _)
scanCandidates(entries, i, segments, bitmask, allowedMask) ==
    IF i > Len(entries)
    THEN [kind |-> "none", entry |-> NoEntry, allowedMask |-> allowedMask,
          foundPath |-> i > 1]
    ELSE LET entry == entries[i]
             mask == BitOr(allowedMask, entry.Bitmask)
         IN  IF BitAnd(entry.Bitmask, bitmask) = 0
             THEN scanCandidates(entries, i + 1, segments, bitmask, mask)
             ELSE LET v == IF entry.Validation THEN checkPatterns(entry, segments, 1)
                           ELSE "pass"
                  IN  IF v = "fail"
                      THEN scanCandidates(entries, i + 1, segments, bitmask, mask)
                      ELSE [kind |-> IF v = "pass" THEN "run" ELSE "panic",
                            entry |-> entry, allowedMask |-> mask, foundPath |-> TRUE]

\* An end of ServeHTTP that does not look at foundPath.
fallThroughAlways405(foundPath, allowedMask, ctx) ==
    [kind |-> "405", entry |-> NoEntry, mask |-> allowedMask, ctx |-> ctx]

\* The end of ServeHTTP, reached when no handler was run: 405 when foundPath,
\* else 404.
fallThrough(foundPath, allowedMask, ctx) ==
    IF foundPath
    THEN [kind |-> "405", entry |-> NoEntry, mask |-> allowedMask, ctx |-> ctx]
    ELSE [kind |-> "404", entry |-> NoEntry, mask |-> 0, ctx |-> ctx]

\* The routing decision of ServeHTTP for a Context fresh from GetContext:
\* kind is "static" or "radix" (entry's handler runs), "405" (with mask),
\* "404" or "panic"; ctx is the Context as routing leaves it.
routeRequest(method, p, ctx) ==
    LET t == staticGet(staticRoutes, p)
        found == searchAll(radixRoot, p)
        ctxFound == [ctx EXCEPT !.Entries = @ \o found.entries,
                                !.Segments = @ \o splitPath(p)]
        scan == scanCandidates(ctxFound.Entries, 1, ctxFound.Segments,
                               getBitmaskIndex(method), 0)
    IN  IF t.Route # <<>>
        THEN IF BitAnd(t.Bitmask, getBitmaskIndex(method)) # 0
             THEN [kind |-> "static", entry |-> t, mask |-> 0,
                   ctx |-> [ctx EXCEPT !.Params = <<>>, !.paramMap = NilParamMap,
                                       !.Entries = <<>>]]
             ELSE [kind |-> "405", entry |-> NoEntry, mask |-> t.Bitmask, ctx |-> ctx]
        ELSE IF ~found.found
        THEN fallThrough(FALSE, 0, ctx)
        ELSE IF ~(Len(p) > 0 /\ p[Len(p)] # "/")
        THEN fallThrough(FALSE, 0, ctxFound)
        ELSE IF scan.kind = "run"
        THEN [kind |-> "radix", entry |-> scan.entry, mask |-> scan.allowedMask,
              ctx |-> [ctxFound EXCEPT !.Params = <<>>, !.paramMap = NilParamMap,
                                       !.Entries = <<scan.entry>>]]
        ELSE IF scan.kind = "panic"
        THEN [kind |-> "panic", entry |-> NoEntry, mask |-> scan.allowedMask, ctx |-> ctxFound]
        ELSE fallThrough(scan.foundPath, scan.allowedMask, ctxFound)

\* The middlewares a program installs here: m1 and m2 are written by the user
\* and only call next; GetHead is the library's.
MiddlewareNames == {"m1", "m2", "GetHead"}

before(m) == m \o "-before"

after(m) == m \o "-after"

\* The loop of wrap from index i down: chain lists the middleware functions
\* around h, the outermost first.
RECURSIVE wrapFrom(_, _, _)
wrapFrom(mws, i, chain) ==
    IF i < 1 THEN chain ELSE wrapFrom(mws, i - 1, <<mws[i]>> \o chain)

\* wrap(h): h inside every registered middleware.
wrap(mws) == wrapFrom(mws, Len(mws), <<>>)

\* A readiness handler that does not look at the flag.
readyHandlerAlwaysOk(w) == Write(WriteHeader(w, 200), "ok")

\* The handler Ready registers.
readyHandler(w) ==
    IF ready THEN Write(WriteHeader(w, 200), "ok")
    ELSE httpError(w, "shutting down", 503)

\* A call of the route handler of entry: the one Ready registered, or a
\* user's with behaviour hb.
callHandler(entry, w, hb) ==
    IF entry.Handler = ReadyFn
    THEN [w |-> readyHandler(w), panic |-> "none"]
    ELSE callUser(w, hb, 200, "handler")

\* A call of the function chain stands for, from its i-th middleware on: a
\* middleware is entered, calls next and is left when next returns; GetHead
\* first turns the method HEAD into GET.  method is the request's method as
\* the route handler finds it.
RECURSIVE callChain(_, _, _, _, _, _)
callChain(chain, i, entry, w, method, hb) ==
    IF i > Len(chain)
    THEN LET h == callHandler(entry, w, hb)
         IN  [w |-> h.w, panic |-> h.panic, events |-> <<"handler">>, method |-> method]
    ELSE LET m == chain[i]
             next == callChain(chain, i + 1, entry, w,
                               IF m = "GetHead" /\ method = "HEAD" THEN "GET" ELSE method, hb)
         IN  [w |-> next.w, panic |-> next.panic,
              events |-> <<before(m)>> \o next.events
                         \o (IF next.panic = "none" THEN <<after(m)>> ELSE <<>>),
              method |-> next.method]

\* The body of ServeHTTP after routing: the sink, the panic that ends the
\* body ("none": it returned), the user functions called, in order, and the
\* method the route handler found in the request ("": no handler ran).  The
\* static fast path runs wrap(t.Handler), the radix path entry.Handler.
serveBody(rt, hb, nb, method) ==
    IF rt.kind = "static"
    THEN callChain(wrap(middlewares), 1, rt.entry, NewWriter, method, hb)
    ELSE IF rt.kind = "radix"
    THEN callChain(<<>>, 1, rt.entry, NewWriter, method, hb)
    ELSE IF rt.kind = "405"
    THEN [w |-> write405(NewWriter, rt.mask), panic |-> "none", events |-> <<>>,
          method |-> ""]
    ELSE IF rt.kind = "panic"
    THEN [w |-> NewWriter, panic |-> "error", events |-> <<>>, method |-> ""]
    ELSE IF notFound # "nil"
    THEN LET n == callUser(NewWriter, nb, 404, "custom404")
         IN  [w |-> n.w, panic |-> n.panic, events |-> <<"notFound">>, method |-> ""]
    ELSE [w |-> Write(WriteHeader(NewWriter, 404), "404 page not found"),
          panic |-> "none", events |-> <<>>, method |-> ""]

(***************************************************************************)
(* Router.ServeHTTP: the deferred guard.                                   *)
(***************************************************************************)
\* recover() called by the deferred function itself returns the panic value.
recoverDirect(panicking) == panicking

\* recover() called by a function that the deferred function calls returns
\* nil: only a call made directly by the deferred function stops a panic.
recoverInCallee(panicking) == "none"

\* secondaryRecover, run as a deferred call while panicking is in flight
\* ("none": no panic).  Its recover() sits in a function literal that
\* secondaryRecover calls.
secondaryRecover(w, panicking, msg) ==
    LET message == recoverInCallee(panicking)
    IN  [w |-> IF message # "none" THEN httpError(w, msg, 500) ELSE w,
         panic |-> IF message # "none" THEN "none" ELSE panicking,
         events |-> <<"contextPool.Put">>]

NotCalled == [pre |-> FALSE, out |-> "notcalled"]

\* A guard that writes the generic 500 whether or not a recovery handler is
\* registered.
deferredGuardAlways500(body, rb) ==
    LET m == recoverDirect(body.panic)
        rec == callUser(body.w, rb, 418, "Recovered")
        sr == secondaryRecover(rec.w, rec.panic, "Recovery middleware failed")
    IN  IF m # "none"
        THEN IF recovery # "nil"
             THEN [w |-> httpError(sr.w, "Internal Server Error", 500),
                   panic |-> sr.panic, rec |-> rb,
                   events |-> <<"recovery", "PutContext">> \o sr.events]
             ELSE [w |-> httpError(body.w, "Internal Server Error", 500), panic |-> "none",
                   rec |-> NotCalled, events |-> <<"PutContext">>]
        ELSE [w |-> body.w, panic |-> "none", rec |-> NotCalled, events |-> <<"PutContext">>]

\* The deferred function of ServeHTTP, run when the body ended with panic
\* body.panic: the sink, the panic that leaves ServeHTTP, the events (the
\* releases of the Context among them) and rec, what the recovery handler did
\* (NotCalled: it was not called).
deferredGuard(body, rb) ==
    LET m == recoverDirect(body.panic)
        err == getErrorMessage(m)
        rec == callUser(body.w, rb, 418, "Recovered")
        sr == secondaryRecover(rec.w, rec.panic,
                  "Recovery middleware failed: an error occurred while executing the recovery handler.")
    IN  IF m # "none" /\ err # "nil"
        THEN IF recovery # "nil"
             THEN IF rec.panic = "none"
                  THEN [w |-> sr.w, panic |-> "none", rec |-> rb,
                        events |-> <<"recovery", "PutContext">> \o sr.events]
                  ELSE [w |-> sr.w, panic |-> sr.panic, rec |-> rb,
                        events |-> <<"recovery">> \o sr.events]
             ELSE [w |-> httpError(body.w, "Internal Server Error", 500), panic |-> "none",
                   rec |-> NotCalled, events |-> <<"PutContext">>]
        ELSE [w |-> body.w, panic |-> "none", rec |-> NotCalled, events |-> <<"PutContext">>]

Releases(events) ==
    Cardinality({i \in 1..Len(events) : events[i] \in {"PutContext", "contextPool.Put"}})

(***************************************************************************)
(* Router.ServeHTTP as two steps of a request: the acquisition of the      *)
(* Context, and the rest of the call up to its return.                     *)
(***************************************************************************)
\* A ServeHTTP whose lookup inserts the path it looks for into the tree.
ServeBeginInserting(r, method, path) ==
    /\ ~exited
    /\ req[r].pc = "idle"
    /\ ctxs' = Append(ctxs, NewContext)
    /\ pool' = Append(pool, 0)
    /\ req' = [req EXCEPT ![r] =
            [pc |-> "acquired", method |-> method, path |-> path, ctx |-> Len(ctxs) + 1,
             got |-> NewContext]]
    /\ radixRoot' = insertNode(radixRoot, path, NoEntry)
    /\ UNCHANGED <<staticRoutes, nRoutes, recovery, notFound, exited>>
    /\ UNCHANGED <<middlewares, lifeVars, call, rateVars>>

\* ctx := GetContext(): a pooled Context, or a new one when the pool is empty;
\* got is the Context as contextPool.Get returned it, before reset.
ServeBegin(r, method, path) ==
    /\ ~exited
    /\ req[r].pc = "idle"
    /\ \E id \in 1..(Len(ctxs) + 1) :
          /\ IF Pooled = {} THEN id = Len(ctxs) + 1 ELSE id \in Pooled
          /\ ctxs' = IF id > Len(ctxs) THEN Append(ctxs, NewContext)
                     ELSE [ctxs EXCEPT ![id] = reset(@)]
          /\ pool' = IF id > Len(ctxs) THEN Append(pool, 0)
                     ELSE [pool EXCEPT ![id] = @ - 1]
          /\ req' = [req EXCEPT ![r] =
                  [pc |-> "acquired", method |-> method, path |-> path, ctx |-> id,
                   got |-> IF id > Len(ctxs) THEN NewContext ELSE ctxs[id]]]
    /\ UNCHANGED <<radixRoot, staticRoutes, nRoutes, recovery, notFound, exited>>
    /\ UNCHANGED <<middlewares, lifeVars, call, rateVars>>

\* The rest of the call.  HB, NB, RB: what the route handler, the NotFound
\* handler and the recovery handler may do if this request reaches them;
\* Uses: what the route handler may do with its Context.  params is what the
\* handler's calls of Param returned.
ServeRest(r, HB, NB, RB, Uses) ==
    /\ req[r].pc = "acquired"
    /\ LET id == req[r].ctx
           rt == routeRequest(req[r].method, req[r].path, ctxs[id])
       IN  \E hb \in IF rt.kind \in {"static", "radix"} THEN HB ELSE {Plain},
              nb \in IF rt.kind = "404" /\ notFound # "nil" THEN NB ELSE {Plain},
              u \in IF rt.kind \in {"static", "radix"} THEN Uses ELSE {NoUse} :
              LET body == serveBody(rt, hb, nb, req[r].method)
              IN  \E rb \in IF body.panic # "none" /\ recovery # "nil" THEN RB ELSE {Plain} :
                     LET g == deferredGuard(body, rb)
                     IN  /\ req' = [req EXCEPT ![r] =
                                [pc |-> "done", method |-> req[r].method,
                                 path |-> req[r].path, ctx |-> id, kind |-> rt.kind,
                                 handler |-> rt.entry.Handler,
                                 seen |-> body.method,
                                 bodyW |-> body.w, bodyPanic |-> body.panic,
                                 rec |-> g.rec, w |-> g.w,
                                 events |-> body.events \o g.events,
                                 propagated |-> g.panic,
                                 params |-> [n \in IF u.param THEN ParamNames ELSE {} |->
                                                Param(rt.ctx, n)]]]
                         /\ ctxs' = [ctxs EXCEPT ![id] = useCtx(rt.ctx, u)]
                         /\ pool' = [pool EXCEPT ![id] = @ + Releases(g.events)]
    /\ UNCHANGED <<radixRoot, staticRoutes, nRoutes, recovery, notFound, exited>>
    /\ UNCHANGED <<middlewares, lifeVars, call, rateVars>>

\* The rest of the call with a route handler that leaves its Context alone.
ServeRun(r, HB, NB, RB) == ServeRest(r, HB, NB, RB, {NoUse})

Init ==
    /\ radixRoot = EmptyNode
    /\ staticRoutes = [u \in {} |-> NoEntry]
    /\ nRoutes = 0
    /\ recovery = "nil"
    /\ notFound = "nil"
    /\ exited = FALSE
    /\ ctxs = <<>>
    /\ pool = <<>>
    /\ req = [r \in 1..MaxInFlight |-> IdleReq]
    /\ middlewares = <<>>
    /\ ready = TRUE
    /\ stop = 0
    /\ servers = <<>>
    /\ wg = 0
    /\ mainPc = "notCalled"
    /\ workerPc = [w \in 1..NumCPU |-> "notStarted"]
    /\ server = [w \in 1..NumCPU |-> NoServer]
    /\ call = NoCall
    /\ clock = 0
    /\ lastRequest = [k \in {} |-> 0]
    /\ limiter = [p \in 1..MaxInFlight |-> [pc |-> "idle"]]
    /\ answers = <<>>

(***************************************************************************)
(* Inputs.                                                                 *)
(***************************************************************************)
Templates ==
    { <<"/", "a">>,
      <<"/", "a", "/", "b">>,
      <<"/", "a", "/", "<", "x", ">">>,
      <<"/", "a", "/", "<", "x", ":", "isDigits", ">">>,
      <<"/", "a", "/", "{", "x", ":", "(", "[a-z]+", ")", "}">>,
      <<"/", "<", "y", ">", "/", "b">> }

MethodLists == { <<"GET">>, <<"POST">> }

Paths ==
    { <<"/", "a">>,
      <<"/", "a", "/", "b">>,
      <<"/", "a", "/", "1">>,
      <<"/", "b">>,
      <<"/", "a", "/">>,
      <<"/", "/", "b">> }

Methods == {"GET", "POST", "HEAD", "OPTIONS"}

\* Routing: any table over Templates, handlers that answer and return.
Next ==
    \/ \E url \in Templates, methods \in MethodLists : HandleFuncUpTo(MaxRoutes, url, methods)
    \/ NotFound
    \/ \E method \in Methods, path \in Paths : ServeBegin(1, method, path)
    \/ ServeRun(1, {Plain}, {Plain}, {Plain})

Spec == Init /\ [][Next]_vars

\* Panics: a small table, handlers of every behaviour.
PanicTemplates == { <<"/", "a">>, <<"/", "a", "/", "<", "x", ":", "isDigits", ">">> }

PanicPaths == { <<"/", "a">>, <<"/", "a", "/", "1">>, <<"/", "b">> }

NextPanic ==
    \/ \E url \in PanicTemplates : HandleFuncUpTo(MaxRoutes, url, <<"GET">>)
    \/ Recovery
    \/ NotFound
    \/ \E path \in PanicPaths : ServeBegin(1, "GET", path)
    \/ ServeRun(1, Behaviours, Behaviours, Behaviours)

SpecPanic == Init /\ [][NextPanic]_vars

(***************************************************************************)
(* Claims about the panic guard and the release of the Context.            *)
(***************************************************************************)
Done(r) == req[r].pc = "done"

Last(q) == q[Len(q)]

Count(events, e) == Cardinality({i \in 1..Len(events) : events[i] = e})

\* The body of ServeHTTP ended in a panic raised by a route handler or by the
\* custom NotFound handler.
UserPanicked(r) ==
    /\ Done(r)
    /\ req[r].bodyPanic # "none"
    /\ req[r].events[1] \in {"handler", "notFound"}

\* C1: every ServeHTTP call releases the Context it acquired exactly once, on
\* every exit path.
C1_ReleasedExactlyOnce ==
    \A r \in DOMAIN req : Done(r) => Releases(req[r].events) = 1

C3_RecoveryHandlesPanic ==
    \A r \in DOMAIN req :
        (UserPanicked(r) /\ recovery # "nil") =>
            /\ Count(req[r].events, "recovery") = 1
            /\ \A i \in 1..Len(req[r].events) :
                  req[r].events[i] = "recovery" =>
                      \A j \in 1..(i - 1) :
                          req[r].events[j] \notin {"PutContext", "contextPool.Put"}
            /\ \A i \in 1..Len(req[r].w.body) : req[r].w.body[i] # "Internal Server Error"
            /\ req[r].rec # NotCalled
            /\ (req[r].rec.out = "return" =>
                    req[r].w = IF req[r].rec.pre
                               THEN Write(WriteHeader(req[r].bodyW, 418), "Recovered")
                               ELSE req[r].bodyW)

C3_Witness ==
    \E r \in DOMAIN req :
        /\ UserPanicked(r)
        /\ recovery # "nil"
        /\ req[r].bodyPanic = "string"
        /\ req[r].rec = Plain
        /\ req[r].w.status = 418
        /\ req[r].w.body = <<"Recovered">>

\* C4: a panic raised inside the recovery handler is caught by the second
\* guard: it does not leave ServeHTTP and the fixed fallback 500 is written.
C4_RecoveryPanicCaught ==
    \A r \in DOMAIN req :
        (Done(r) /\ req[r].rec.out \in PanicKinds) =>
            /\ req[r].propagated = "none"
            /\ req[r].w.body # <<>>
            /\ Last(req[r].w.body) =
                   "Recovery middleware failed: an error occurred while executing the recovery handler."

\* C5: a request whose handler panics produces exactly one response write (one
\* status line submitted to the sink), also when the handler had written
\* before it panicked.  The recovery handler, where one is registered, is one
\* that writes its response and returns.
C5_OneResponseWrite ==
    \A r \in DOMAIN req :
        (/\ Done(r)
         /\ req[r].bodyPanic # "none"
         /\ req[r].events[1] = "handler"
         /\ req[r].rec \in {NotCalled, Plain}) =>
            req[r].w.headerWrites = 1

(***************************************************************************)
(* Claims about routing.  A template matches a path structurally when the  *)
(* path is "/" followed by as many non-empty segments as the template has, *)
(* separated by single slashes, and every literal segment of the template  *)
(* equals the path's segment at its position.                              *)
(***************************************************************************)
RECURSIVE TreeEntries(_)
TreeEntries(node) ==
    {node.entries[i] : i \in 1..Len(node.entries)}
        \cup UNION {TreeEntries(node.children[c]) : c \in 1..Len(node.children)}

Registered == TreeEntries(radixRoot)

Range(q) == {q[i] : i \in 1..Len(q)}

WellFormed(path) == path = <<"/">> \o Join(splitPath(path))

StructMatch(e, path) ==
    /\ WellFormed(path)
    /\ Len(splitPath(path)) = Len(e.Patterns)
    /\ \A i \in 1..Len(e.Patterns) :
          e.Patterns[i].Type = _STRING => e.Patterns[i].Slug = splitPath(path)[i]

Accepts(e, method) == BitAnd(e.Bitmask, getBitmaskIndex(method)) # 0

PatternsPass(e, path) ==
    \A i \in 1..Len(e.Patterns) :
        /\ e.Patterns[i].Type = _PATTERN => callMatchFunc(e.Patterns[i].Fn, splitPath(path)[i])
        /\ e.Patterns[i].Type \in {_MATCH, _SUBMATCH} =>
               regexMatch(e.Patterns[i].RegexCompiled, splitPath(path)[i])

SevenMethods == {"GET", "POST", "PUT", "DELETE", "PATCH", "HEAD", "OPTIONS"}

\* C6: dispatch is complete: if some registered entry matches the path
\* structurally, accepts the method and passes its pattern checks, a route
\* handler runs and the response is neither 404 nor 405.
C6_DispatchComplete ==
    \A r \in DOMAIN req :
        (/\ Done(r)
         /\ \E e \in Registered :
               /\ StructMatch(e, req[r].path)
               /\ Accepts(e, req[r].method)
               /\ PatternsPass(e, req[r].path)) =>
            /\ req[r].kind \in {"static", "radix"}
            /\ req[r].w.status \notin {404, 405}

\* C7: when the path matches structurally and no entry accepts the method, the
\* response is 405 and Allow lists exactly the methods accepted by some
\* structurally matching entry.
C7_AllowIsExactUnion ==
    \A r \in DOMAIN req :
        (/\ Done(r)
         /\ \E e \in Registered : StructMatch(e, req[r].path)
         /\ \A e \in Registered : StructMatch(e, req[r].path) => ~Accepts(e, req[r].method)) =>
            /\ req[r].w.status = 405
            /\ \A m \in SevenMethods :
                  m \in Range(req[r].w.allow) <=>
                      \E e \in Registered : StructMatch(e, req[r].path) /\ Accepts(e, m)

\* C8: a path with no static-map hit and no radix candidate, and likewise a
\* well-formed path that no registered template matches structurally, is
\* answered 404, by the custom NotFound handler if one is registered and else
\* with the built-in body; never 405, and no route handler runs.
C8_NoCandidateIs404 ==
    \A r \in DOMAIN req :
        (/\ Done(r)
         /\ \/ /\ staticGet(staticRoutes, req[r].path).Route = <<>>
               /\ ~searchAll(radixRoot, req[r].path).found
            \/ /\ WellFormed(req[r].path)
               /\ \A e \in Registered : ~StructMatch(e, req[r].path)) =>
            /\ req[r].kind = "404"
            /\ req[r].w.status = 404
            /\ req[r].w.allow = <<>>
            /\ req[r].handler = 0
            /\ Count(req[r].events, "handler") = 0
            /\ IF notFound = "nil"
               THEN /\ req[r].w.body = <<"404 page not found">>
                    /\ Count(req[r].events, "notFound") = 0
               ELSE /\ req[r].w.body = <<"custom404">>
                    /\ Count(req[r].events, "notFound") = 1

C8_Witness ==
    \E r \in DOMAIN req :
        /\ Done(r)
        /\ nRoutes = MaxRoutes
        /\ req[r].path = <<"/", "b">>
        /\ \A e \in Registered : ~StructMatch(e, req[r].path)
        /\ notFound # "nil"
        /\ req[r].w.status = 404
        /\ req[r].events[1] = "notFound"

\* C9: a request whose method is accepted and whose path has the shape of a
\* registered parameterized template, but whose parameter segment fails the
\* template's pattern, is answered 404 when no other entry matches.
C9_PatternFailIs404 ==
    \A r \in DOMAIN req :
        (/\ Done(r)
         /\ \E e \in Registered : StructMatch(e, req[r].path)
         /\ \A e \in Registered :
               StructMatch(e, req[r].path) =>
                   Accepts(e, req[r].method) /\ ~PatternsPass(e, req[r].path)) =>
            /\ req[r].kind = "404"
            /\ req[r].w.status = 404

\* C10: registering the same (template, method) twice yields two independent
\* entries, and a request is dispatched to the first-registered of them.
C10_FirstRegisteredWins ==
    /\ Cardinality(Registered) = nRoutes
    /\ \A r \in DOMAIN req :
          (Done(r) /\ req[r].kind \in {"static", "radix"}) =>
              \A win \in Registered, e \in Registered :
                  (/\ win.Handler = req[r].handler
                   /\ e.Route = win.Route
                   /\ e.Bitmask = win.Bitmask) => win.Handler <= e.Handler

(***************************************************************************)
(* Precedence among candidates: tables of up to MaxOrderRoutes routes over *)
(* templates that overlap on one path.                                     *)
(***************************************************************************)
MaxOrderRoutes == 3

OrderTemplates ==
    { <<"/", "a", "/", "b">>,
      <<"/", "a", "/", "<", "x", ">">>,
      <<"/", "<", "y", ">", "/", "b">> }

OrderPaths == { <<"/", "a", "/", "b">>, <<"/", "a", "/", "1">> }

NextOrder ==
    \/ \E url \in OrderTemplates, methods \in {<<"GET">>, <<"POST">>} :
          HandleFuncUpTo(MaxOrderRoutes, url, methods)
    \/ \E method \in {"GET", "POST"}, path \in OrderPaths : ServeBegin(1, method, path)
    \/ ServeRun(1, {Plain}, {Plain}, {Plain})

SpecOrder == Init /\ [][NextOrder]_vars

IsParam(e) == \E i \in 1..Len(e.Patterns) : e.Patterns[i].Type # _STRING

\* The registered entries that match the request r structurally, accept its
\* method and pass their pattern checks.
Winners(r) ==
    {e \in Registered : /\ StructMatch(e, req[r].path)
                        /\ Accepts(e, req[r].method)
                        /\ PatternsPass(e, req[r].path)}

\* C11: among the parameterized entries that match a path structurally and
\* pass the method and pattern checks, the one registered first handles the
\* request (no static route is registered for the path).
C11_FirstParamWins ==
    \A r \in DOMAIN req :
        (/\ Done(r)
         /\ staticGet(staticRoutes, req[r].path).Route = <<>>
         /\ Winners(r) # {}
         /\ \A e \in Winners(r) : IsParam(e)) =>
            /\ req[r].kind = "radix"
            /\ \A e \in Winners(r) : req[r].handler <= e.Handler

\* e1 has a literal segment where e2 has a parameter, and the two templates
\* agree everywhere else.
LiteralOver(e1, e2) ==
    /\ Len(e1.Patterns) = Len(e2.Patterns)
    /\ \E i \in 1..Len(e1.Patterns) :
          /\ e1.Patterns[i].Type = _STRING
          /\ e2.Patterns[i].Type # _STRING
          /\ \A j \in (1..Len(e1.Patterns)) \ {i} :
                IF e1.Patterns[j].Type = _STRING
                THEN e2.Patterns[j].Type = _STRING /\ e2.Patterns[j].Slug = e1.Patterns[j].Slug
                ELSE e2.Patterns[j].Type # _STRING

\* C12: when a route with a literal segment and a route with a parameter at
\* the same position both match the path and accept the method, a handler of
\* the route with the literal segment runs, whatever the registration order.
C12_LiteralBeatsParam ==
    \A r \in DOMAIN req :
        Done(r) =>
            \A e1 \in Winners(r), e2 \in Winners(r) :
                LiteralOver(e1, e2) =>
                    /\ req[r].kind \in {"static", "radix"}
                    /\ \E win \in Registered :
                          win.Handler = req[r].handler /\ win.Route = e1.Route

(***************************************************************************)
(* The radix tree used directly: insertNode(key, entry) and                *)
(* searchAll(key, ctx) on a fresh Context.                                 *)
(***************************************************************************)
MaxKeys == 3

\* r.insertNode(key, entry), before the first search (the tree is built at
\* setup): the entry carries its key as Route and the number of the call as
\* Handler.
InsertNode(key) ==
    /\ SettingUp
    /\ nRoutes < MaxKeys
    /\ radixRoot' = insertNode(radixRoot, key,
                        [NoEntry EXCEPT !.Route = key, !.Handler = nRoutes + 1])
    /\ nRoutes' = nRoutes + 1
    /\ UNCHANGED <<staticRoutes, recovery, notFound, exited, ctxs, pool, req>>
    /\ UNCHANGED <<middlewares, lifeVars, call, rateVars>>

\* ctx := &Context{}; found := r.searchAll(key, ctx)
SearchAll(r, key) ==
    /\ req[r].pc \in {"idle", "searched"}
    /\ LET res == searchAll(radixRoot, key)
       IN  req' = [req EXCEPT ![r] = [pc |-> "searched", key |-> key,
                                      found |-> res.found,
                                      entries |-> NewContext.Entries \o res.entries]]
    /\ UNCHANGED <<radixRoot, staticRoutes, nRoutes, recovery, notFound, exited, ctxs, pool>>
    /\ UNCHANGED <<middlewares, lifeVars, call, rateVars>>

LiteralKeys ==
    { <<"/", "a">>, <<"/", "a", "b">>, <<"/", "a", "/", "b">>, <<"/", "b">>,
      <<"/", "a", "/", "b", "a">> }

Skeletons == { <<"/", "*">>, <<"/", "a", "/", "*">>, <<"/", "*", "/", "b">> }

SearchKeys ==
    LiteralKeys \cup { <<"/">>, <<"/", "a", "/">>, <<"/", "/", "b">>, <<"/", "b", "/", "b">> }

NextRadix ==
    \/ \E key \in LiteralKeys \cup Skeletons : InsertNode(key)
    \/ \E key \in SearchKeys : SearchAll(1, key)

SpecRadix == Init /\ [][NextRadix]_vars

Searched(r) == req[r].pc = "searched"

\* The skeleton sk, with "*" for a parameter segment, matches the path p
\* segment by segment.
SkeletonMatches(sk, p) ==
    /\ Len(splitPath(p)) = Len(splitPath(sk))
    /\ \A i \in 1..Len(splitPath(sk)) :
          splitPath(sk)[i] # <<"*">> => splitPath(sk)[i] = splitPath(p)[i]

\* C13: searchAll returns the entries of a wildcard skeleton for a concrete
\* path exactly when the path has as many non-empty segments as the skeleton
\* and every literal segment of the skeleton equals the path's segment at its
\* position: every entry returned is of such a skeleton (a wildcard matches no
\* empty segment and spans no "/"), and for a path written as "/" followed by
\* its segments every such entry is returned.
C13_WildcardMatchesSegmentwise ==
    \A r \in DOMAIN req :
        Searched(r) =>
            /\ \A i \in 1..Len(req[r].entries) :
                  SkeletonMatches(req[r].entries[i].Route, req[r].key)
            /\ WellFormed(req[r].key) =>
                  \A e \in Registered :
                      SkeletonMatches(e.Route, req[r].key) =>
                          /\ req[r].found
                          /\ e \in Range(req[r].entries)

WildcardFree(key) == \A i \in 1..Len(key) : key[i] # "*"

\* C14: after inserts of wildcard-free keys only, in any order, searchAll(k)
\* returns true with exactly the entries inserted under k, in insertion order,
\* when k was inserted, and false with no entry when it was not.
C14_ExactKeyLookup ==
    \A r \in DOMAIN req :
        (Searched(r) /\ \A e \in Registered : WildcardFree(e.Route)) =>
            LET under == {e \in Registered : e.Route = req[r].key}
            IN  /\ req[r].found = (under # {})
                /\ Range(req[r].entries) = under
                /\ Len(req[r].entries) = Cardinality(under)
                /\ \A i \in 1..Len(req[r].entries), j \in 1..Len(req[r].entries) :
                      i < j => req[r].entries[i].Handler < req[r].entries[j].Handler

C14_Witness ==
    \E r \in DOMAIN req :
        /\ Searched(r)
        /\ nRoutes = MaxKeys
        /\ \A e \in Registered : WildcardFree(e.Route)
        /\ req[r].key = <<"/", "a">>
        /\ Len(req[r].entries) = 2
        /\ \E e \in Registered : e.Route = <<"/", "a", "b">>
        /\ Len(radixRoot.children) = 1
        /\ radixRoot.children[1].prefix = <<"/", "a">>
        /\ radixRoot.children[1].children # <<>>

(***************************************************************************)
(* Parameters: handlers that call Param for every name of ParamNames.      *)
(***************************************************************************)
ParamTemplates ==
    { <<"/", "a", "/", "b">>,
      <<"/", "a", "/", "<", "x", ">">>,
      <<"/", "a", "/", "<", "x", ":", "isDigits", ">">>,
      <<"/", "a", "/", "<", "x", ":", "v", "(", "[0-9]+", ")", ">">>,
      <<"/", "<", "y", ">", "/", "b">>,
      <<"/", "<", "y", ">", "/", "<", "x", ">">> }

ParamPaths ==
    { <<"/", "a", "/", "b">>, <<"/", "a", "/", "1">>, <<"/", "a", "/", "v", "1">>,
      <<"/", "/", "b">> }

AsksParams == [NoUse EXCEPT !.param = TRUE]

ServeRunParam(r) == ServeRest(r, {Plain}, {Plain}, {Plain}, {AsksParams})

NextParam ==
    \/ \E url \in ParamTemplates : HandleFuncUpTo(MaxRoutes, url, <<"GET">>)
    \/ \E path \in ParamPaths : ServeBegin(1, "GET", path)
    \/ ServeRunParam(1)

SpecParam == Init /\ [][NextParam]_vars

\* The request r was served by a route handler that asked for its parameters.
Asked(r) == Done(r) /\ req[r].kind \in {"static", "radix"} /\ DOMAIN req[r].params = ParamNames

\* The Patterns of the entry whose handler served r (none for a static route,
\* which is served with an empty ctx.Entries).
WinPatterns(r) ==
    IF req[r].kind = "radix" THEN ctxs[req[r].ctx].Entries[1].Patterns ELSE <<>>

\* C15: whenever the handler of a parameterized route runs, the winning
\* entry has as many patterns as the request path has segments, and Param of
\* the name of every parameter segment returns the path's segment at that
\* position, with true.
C15_ParamBindsPositionally ==
    \A r \in DOMAIN req :
        (Asked(r) /\ req[r].kind = "radix") =>
            /\ Len(WinPatterns(r)) = Len(splitPath(req[r].path))
            /\ \A i \in 1..Len(WinPatterns(r)) :
                  WinPatterns(r)[i].Type # _STRING =>
                      req[r].params[WinPatterns(r)[i].Slug] =
                          [value |-> splitPath(req[r].path)[i], ok |-> TRUE]

\* C16: Param returns ("", false) for every name that is not a parameter of
\* the winning template, a name equal to one of its literal segments included,
\* and for every name when a static route served the request.
C16_ParamUnknownName ==
    \A r \in DOMAIN req :
        Asked(r) =>
            \A n \in ParamNames :
                (\A i \in 1..Len(WinPatterns(r)) :
                     WinPatterns(r)[i].Type # _STRING => WinPatterns(r)[i].Slug # n) =>
                    req[r].params[n] = [value |-> <<>>, ok |-> FALSE]

C16_Witness ==
    \E r \in DOMAIN req :
        /\ Asked(r)
        /\ req[r].kind = "radix"
        /\ req[r].path = <<"/", "a", "/", "b">>
        /\ WinPatterns(r)[1].Slug = <<"a">>
        /\ WinPatterns(r)[1].Type = _STRING
        /\ req[r].params[<<"x">>].ok
        /\ ~req[r].params[<<"a">>].ok
        /\ ~req[r].params[<<"b">>].ok

\* The text the single capturing group of pt captures in segment s, for a
\* pattern whose tokens outside the group are literal characters.
Capture(pt, s) ==
    LET open == CHOOSE i \in 1..Len(pt) : pt[i] = "("
        close == CHOOSE i \in 1..Len(pt) : pt[i] = ")"
    IN  SubSeq(s, open, Len(s) - (Len(pt) - close))

\* C17: for a parameter whose pattern is a regular expression with exactly
\* one capturing group, Param returns the text of the capture, not the whole
\* segment.
C17_ParamIsCapture ==
    \A r \in DOMAIN req :
        (Asked(r) /\ req[r].kind = "radix" /\
         Len(WinPatterns(r)) = Len(splitPath(req[r].path))) =>
            \A i \in 1..Len(WinPatterns(r)) :
                (/\ WinPatterns(r)[i].Type = _SUBMATCH
                 /\ countCaptureGroups(WinPatterns(r)[i].RegexCompiled) = 1) =>
                    req[r].params[WinPatterns(r)[i].Slug] =
                        [value |-> Capture(WinPatterns(r)[i].RegexCompiled,
                                           splitPath(req[r].path)[i]),
                         ok |-> TRUE]

(***************************************************************************)
(* The pool across requests: MaxInFlight concurrent calls of ServeHTTP,    *)
(* each slot serving one request after another.                            *)
(***************************************************************************)
MaxPooled == 1

\* ServeHTTP has returned; the slot takes requests again while no Context
\* is in the pool more than MaxPooled times.
ServeReturn(r) ==
    /\ req[r].pc = "done"
    /\ \A id \in DOMAIN pool : pool[id] <= MaxPooled
    /\ req' = [req EXCEPT ![r] = IdleReq]
    /\ UNCHANGED <<radixRoot, staticRoutes, nRoutes, recovery, notFound, exited, ctxs, pool>>
    /\ UNCHANGED <<middlewares, lifeVars, call, rateVars>>

PoolTemplates == { <<"/", "a", "/", "<", "x", ">">> }

PoolPaths == { <<"/", "a", "/", "1">> }

UsesAll == [param |-> TRUE, paramMap |-> TRUE, set |-> TRUE, abort |-> TRUE]

Panics == [pre |-> FALSE, out |-> "string"]

ServeRunPool(r) == ServeRest(r, {Plain, Panics}, {Plain}, {Plain}, {UsesAll})

NextPool ==
    \/ \E url \in PoolTemplates : HandleFuncUpTo(1, url, <<"GET">>)
    \/ Recovery
    \/ \E r \in 1..MaxInFlight, path \in PoolPaths : ServeBegin(r, "GET", path)
    \/ \E r \in 1..MaxInFlight : ServeRunPool(r)
    \/ \E r \in 1..MaxInFlight : ServeReturn(r)

SpecPool == Init /\ [][NextPool]_vars

\* Reuse of pooled Contexts by handlers that return: every request releases
\* its Context once.
ReusePaths == { <<"/", "a", "/", "1">>, <<"/", "b">> }

ServeRunReuse(r) == ServeRest(r, {Plain}, {Plain}, {Plain}, {NoUse, UsesAll})

NextReuse ==
    \/ \E url \in PoolTemplates : HandleFuncUpTo(1, url, <<"GET">>)
    \/ \E r \in 1..MaxInFlight, path \in ReusePaths : ServeBegin(r, "GET", path)
    \/ \E r \in 1..MaxInFlight : ServeRunReuse(r)
    \/ \E r \in 1..MaxInFlight : ServeReturn(r)

SpecReuse == Init /\ [][NextReuse]_vars

InFlight(r) == req[r].pc = "acquired"

\* C18: the Context GetContext returns, also when the pool hands back an
\* object a finished request used, has empty Params, Segments and Entries,
\* no Data key, no memoized ParamMap, and is not aborted: every step in which
\* a request acquires its Context ends with that Context in this state.
C18_AcquiredIsReset ==
    [][\A r \in DOMAIN req :
          (req[r].pc = "idle" /\ req'[r].pc = "acquired") =>
              /\ ctxs'[req'[r].ctx].Params = <<>>
              /\ ctxs'[req'[r].ctx].Segments = <<>>
              /\ ctxs'[req'[r].ctx].Entries = <<>>
              /\ DOMAIN ctxs'[req'[r].ctx].Data = {}
              /\ ctxs'[req'[r].ctx].paramMap.isNil
              /\ ~ctxs'[req'[r].ctx].aborted]_vars

C18_Witness ==
    \E r \in DOMAIN req :
        /\ InFlight(r)
        /\ req[r].got.Params # <<>>
        /\ req[r].got.Segments # <<>>
        /\ req[r].got.Entries # <<>>
        /\ DOMAIN req[r].got.Data # {}
        /\ ~req[r].got.paramMap.isNil
        /\ req[r].got.aborted
        /\ ctxs[req[r].ctx] = NewContext

\* C19: no two requests in flight hold the same Context.
C19_ExclusiveContext ==
    \A r1 \in DOMAIN req, r2 \in DOMAIN req :
        (r1 # r2 /\ InFlight(r1) /\ InFlight(r2)) => req[r1].ctx # req[r2].ctx

\* C20: a released Context that no request has acquired since is reset:
\* empty Params, Segments and Entries, no Data key, no memoized ParamMap, not
\* aborted.
C20_ReleasedIsReset ==
    \A id \in DOMAIN ctxs :
        (pool[id] > 0 /\ \A r \in DOMAIN req : ~(InFlight(r) /\ req[r].ctx = id)) =>
            /\ ctxs[id].Params = <<>>
            /\ ctxs[id].Segments = <<>>
            /\ ctxs[id].Entries = <<>>
            /\ DOMAIN ctxs[id].Data = {}
            /\ ctxs[id].paramMap.isNil
            /\ ~ctxs[id].aborted

(***************************************************************************)
(* Claims about middleware.                                                *)
(***************************************************************************)
MaxMiddlewares == 2

\* Use while fewer than n middlewares are registered.
UseUpTo(n, m) == Len(middlewares) < n /\ Use(m)

MwTemplates == { <<"/", "a">>, <<"/", "a", "/", "<", "x", ">">> }

MwMethodLists == { <<"GET">>, <<"GET", " ", "HEAD">> }

MwPaths == { <<"/", "a">>, <<"/", "a", "/", "1">> }

\* Middleware: up to MaxMiddlewares of them around a static and a
\* parameter route, asked with GET and HEAD.
NextMw ==
    \/ \E m \in MiddlewareNames : UseUpTo(MaxMiddlewares, m)
    \/ \E url \in MwTemplates, methods \in MwMethodLists :
          HandleFuncUpTo(MaxRoutes, url, methods)
    \/ \E method \in {"GET", "HEAD"}, path \in MwPaths : ServeBegin(1, method, path)
    \/ ServeRun(1, {Plain}, {Plain}, {Plain})

SpecMw == Init /\ [][NextMw]_vars

\* The request was dispatched: a route handler ran for it.
Dispatched(r) == Done(r) /\ req[r].kind \in {"static", "radix"}

\* What a request saw of the middlewares and the handler.
Observed(r) ==
    SelectSeq(req[r].events,
              LAMBDA e : e \notin {"PutContext", "contextPool.Put", "recovery"})

Befores(mws) == [i \in 1..Len(mws) |-> before(mws[i])]

Afters(mws) == [i \in 1..Len(mws) |-> after(mws[Len(mws) + 1 - i])]

\* C21: middleware nests in registration order: every dispatched request
\* whose handler returns observes the entries of the registered middlewares
\* in registration order, then the handler, then their exits in the reverse
\* order (after Use(m1), Use(m2): m1-before, m2-before, handler, m2-after,
\* m1-after).
C21_MiddlewareNestsInOrder ==
    \A r \in 1..MaxInFlight :
        Dispatched(r) /\ req[r].bodyPanic = "none" =>
            Observed(r) = Befores(middlewares) \o <<"handler">> \o Afters(middlewares)

\* C22: every route handler the Dispatcher runs is run inside the full
\* middleware chain, on the static fast path and on the radix path alike.
C22_HandlerRunsInsideChain ==
    \A r \in 1..MaxInFlight :
        Dispatched(r) =>
            \A i \in 1..Len(middlewares) :
                \E j \in 1..Len(req[r].events) :
                    /\ req[r].events[j] = before(middlewares[i])
                    /\ \E k \in (j + 1)..Len(req[r].events) : req[r].events[k] = "handler"

\* The table has a route for the path, and every route for it accepts GET
\* only.
GetOnly(path) ==
    /\ \E e \in Registered : StructMatch(e, path)
    /\ \A e \in Registered : StructMatch(e, path) => e.Bitmask = GET

\* C23: with GetHead installed, a HEAD request for a route registered for GET
\* only is turned into a GET request before routing and is served by the
\* route's GET handler, not answered 405.
C23_GetHeadServesHead ==
    \A r \in 1..MaxInFlight :
        /\ Done(r)
        /\ req[r].method = "HEAD"
        /\ \E i \in 1..Len(middlewares) : middlewares[i] = "GetHead"
        /\ GetOnly(req[r].path)
        => /\ Dispatched(r)
           /\ req[r].seen = "GET"
           /\ req[r].w.status # 405

(***************************************************************************)
(* Claims about the method bitmask.                                        *)
(***************************************************************************)
MaxTokens == 3

MethodTokens == {"GET", "POST", "ANY", "FOO"}

\* tokens joined by single spaces
RECURSIVE SpaceJoin(_)
SpaceJoin(tokens) ==
    IF tokens = <<>> THEN <<>>
    ELSE IF Len(tokens) = 1 THEN tokens
    ELSE <<Head(tokens), " ">> \o SpaceJoin(Tail(tokens))

\* The method lists of up to MaxTokens tokens.
TokenLists == UNION {[1..n -> MethodTokens] : n \in 0..MaxTokens}

InitBits ==
    /\ radixRoot = EmptyNode
    /\ staticRoutes = [u \in {} |-> NoEntry]
    /\ nRoutes = 0
    /\ recovery = "nil"
    /\ notFound = "nil"
    /\ exited = FALSE
    /\ ctxs = <<>>
    /\ pool = <<>>
    /\ req = [r \in 1..MaxInFlight |-> IdleReq]
    /\ middlewares = <<>>
    /\ ready = TRUE
    /\ stop = 0
    /\ servers = <<>>
    /\ wg = 0
    /\ mainPc = "notCalled"
    /\ workerPc = [w \in 1..NumCPU |-> "notStarted"]
    /\ server = [w \in 1..NumCPU |-> NoServer]
    /\ \E tokens \in TokenLists :
          call = [pc |-> "called", methods |-> SpaceJoin(tokens), result |-> 0]
    /\ clock = 0
    /\ lastRequest = [k \in {} |-> 0]
    /\ limiter = [p \in 1..MaxInFlight |-> [pc |-> "idle"]]
    /\ answers = <<>>

\* r.MethodsToBitmask(methods)
CallMethodsToBitmask ==
    /\ call.pc = "called"
    /\ call' = [call EXCEPT !.pc = "returned", !.result = MethodsToBitmask(call.methods)]
    /\ UNCHANGED <<radixRoot, staticRoutes, nRoutes, recovery, notFound, exited, ctxs,
                   pool, req, middlewares, lifeVars, rateVars>>

NextBits == CallMethodsToBitmask

SpecBits == InitBits /\ [][NextBits]_vars

\* The words of a method list.
Words(methods) == { <<t>> : t \in Range(methods) \ {" "} }

Unknown(word) == word[1] \notin DOMAIN methodMap

\* The bits a known word stands for: ANY stands for all seven.
BitsOf(word) == IF methodMap[word[1]] = ANY THEN 127 ELSE methodMap[word[1]]

RECURSIVE OrAll(_)
OrAll(S) ==
    IF S = {} THEN 0
    ELSE LET x == CHOOSE x \in S : TRUE IN BitOr(x, OrAll(S \ {x}))

\* C24: MethodsToBitmask returns -1 whenever the list holds an unknown token,
\* wherever in the list that token stands; otherwise it returns the bitwise
\* OR of the listed methods' bits, whatever their order and however often
\* they are repeated (0 for the empty list).
C24_BitmaskOrUnknown ==
    call.pc = "returned" =>
        IF \E word \in Words(call.methods) : Unknown(word)
        THEN call.result = 0 - 1
        ELSE call.result = OrAll({BitsOf(word) : word \in Words(call.methods)})

(***************************************************************************)
(* Claims about ANY routes.                                                *)
(***************************************************************************)
AnyTemplates == { <<"/", "a">>, <<"/", "a", "/", "<", "x", ">">> }

AnyMethodLists == { <<"ANY">>, <<"GET", " ", "ANY">> }

AnyPaths == { <<"/", "a">>, <<"/", "a", "/", "1">>, <<"/", "b">> }

AnyMethods == {"GET", "DELETE", "OPTIONS", "TRACE", "CONNECT"}

\* ANY routes, asked with methods of the seven and with others.
NextAny ==
    \/ \E url \in AnyTemplates, methods \in AnyMethodLists :
          HandleFuncUpTo(MaxRoutes, url, methods)
    \/ \E method \in AnyMethods, path \in AnyPaths : ServeBegin(1, method, path)
    \/ ServeRun(1, {Plain}, {Plain}, {Plain})

SpecAny == Init /\ [][NextAny]_vars

\* A route registered with ANY matches the path.
AnyRouteMatches(path) ==
    \E e \in Registered :
        e.Bitmask = MethodsToBitmask(<<"ANY">>) /\ StructMatch(e, path) /\ PatternsPass(e, path)

\* C25: a route registered with ANY matches every request method string, the
\* seven known methods and any other (TRACE, CONNECT): a request for a path
\* such a route matches is dispatched and never answered 405.
C25_AnyMatchesEveryMethod ==
    \A r \in 1..MaxInFlight :
        Done(r) /\ AnyRouteMatches(req[r].path) =>
            Dispatched(r) /\ req[r].w.status # 405

(***************************************************************************)
(* Claims about registrations that are configuration errors.               *)
(***************************************************************************)
FatalTemplates ==
    { <<"/", "a">>,
      <<"/", "a", "/", "<", "x", ">">>,
      <<"/", "a", "/", "<", "x", ":", ">">> }

FatalMethodLists ==
    { <<"GET">>, <<"FOO">>, <<"GET", " ", "FOO">>, <<"ANY", " ", "FOO">> }

FatalPaths == { <<"/", "a">>, <<"/", "a", "/", "1">> }

\* Registrations with and without a configuration error, and requests.
NextFatal ==
    \/ \E url \in FatalTemplates, methods \in FatalMethodLists :
          HandleFuncUpTo(MaxRoutes, url, methods)
    \/ \E method \in {"GET", "POST"}, path \in FatalPaths : ServeBegin(1, method, path)
    \/ ServeRun(1, {Plain}, {Plain}, {Plain})

SpecFatal == Init /\ [][NextFatal]_vars

\* The template has a parameter whose pattern is explicitly empty.
HasEmptyPattern(url) ==
    \E i \in 1..(Len(url) - 1) : url[i] = ":" /\ url[i + 1] \in {">", "}"}

\* The registration is a configuration error.
ConfigError(url, methods) ==
    \/ \E word \in Words(methods) : Unknown(word)
    \/ HasEmptyPattern(url)

\* C26: a registration that is a configuration error (a method list with an
\* unknown token, or a parameter with an explicitly empty pattern) ends the
\* process during HandleFunc and leaves the static map and the radix tree as
\* they were, so that no entry of it can be reached.
C26_ConfigErrorExitsFirst ==
    [][\A url \in FatalTemplates, methods \in FatalMethodLists :
          ConfigError(url, methods) /\ HandleFunc(url, methods) =>
              exited' /\ radixRoot' = radixRoot /\ staticRoutes' = staticRoutes]_vars

(***************************************************************************)
(* Router.MultiListenAndServe with one listener: the calling goroutine,    *)
(* the worker goroutines, the goroutines that call Shutdown, and the       *)
(* termination signal.                                                     *)
(***************************************************************************)
Workers == 1..NumCPU

\* MultiListenAndServe from its call to <-stop: signal.Notify, the REUSEPORT
\* probe, and the goroutines started: NumCPU workers where the probe
\* succeeded (reuse), one worker where it did not.
MultiListenAndServe(reuse) ==
    /\ ~exited
    /\ mainPc = "notCalled"
    /\ mainPc' = "waitStop"
    /\ workerPc' = [w \in Workers |->
                      IF reuse THEN "listenReuse"
                      ELSE IF w = 1 THEN "listen" ELSE "notStarted"]
    /\ wg' = IF reuse THEN NumCPU ELSE 1
    /\ UNCHANGED <<radixRoot, staticRoutes, nRoutes, recovery, notFound, exited, ctxs,
                   pool, req, middlewares, ready, stop, servers, server, call, rateVars>>

\* The operating system delivers SIGINT or SIGTERM: the signal goes into the
\* stop channel if its one place is free, and is dropped if not.
Signal ==
    /\ ~exited
    /\ mainPc # "notCalled"
    /\ stop = 0
    /\ stop' = 1
    /\ UNCHANGED <<radixRoot, staticRoutes, nRoutes, recovery, notFound, exited, ctxs,
                   pool, req, middlewares, ready, servers, wg, mainPc, workerPc,
                   server, call, rateVars>>

\* A worker's Listen and, on success, its server := &http.Server{...}.  A
\* REUSEPORT worker whose Listen fails returns; the single worker's failure
\* is fatal.
WorkerListen(w, ok) ==
    /\ ~exited
    /\ workerPc[w] \in {"listenReuse", "listen"}
    /\ IF ok
       THEN /\ workerPc' = [workerPc EXCEPT ![w] = "append"]
            /\ server' = [server EXCEPT ![w].created = TRUE]
            /\ UNCHANGED <<wg, exited>>
       ELSE IF workerPc[w] = "listenReuse"
       THEN /\ workerPc' = [workerPc EXCEPT ![w] = "done"]
            /\ wg' = wg - 1
            /\ UNCHANGED <<server, exited>>
       ELSE /\ exited' = TRUE
            /\ UNCHANGED <<workerPc, wg, server>>
    /\ UNCHANGED <<radixRoot, staticRoutes, nRoutes, recovery, notFound, ctxs,
                   pool, req, middlewares, ready, stop, servers, mainPc, call, rateVars>>

\* mu.Lock(); servers = append(servers, server); mu.Unlock()
WorkerAppend(w) ==
    /\ ~exited
    /\ workerPc[w] = "append"
    /\ servers' = Append(servers, w)
    /\ workerPc' = [workerPc EXCEPT ![w] = "serve"]
    /\ UNCHANGED <<radixRoot, staticRoutes, nRoutes, recovery, notFound, exited, ctxs,
                   pool, req, middlewares, ready, stop, wg, mainPc, server, call, rateVars>>

\* The listener of the server is closed: Shutdown has begun.
Closed(w) == server[w].shutdown \in {"progress", "done"}

\* server.Serve(listener) is called: it returns ErrServerClosed at once if
\* Shutdown has begun, and the deferred wg.Done() runs.
WorkerServe(w) ==
    /\ ~exited
    /\ workerPc[w] = "serve"
    /\ IF Closed(w)
       THEN /\ workerPc' = [workerPc EXCEPT ![w] = "done"]
            /\ wg' = wg - 1
       ELSE /\ workerPc' = [workerPc EXCEPT ![w] = "serving"]
            /\ UNCHANGED wg
    /\ UNCHANGED <<radixRoot, staticRoutes, nRoutes, recovery, notFound, exited, ctxs,
                   pool, req, middlewares, ready, stop, servers, mainPc, server, call, rateVars>>

\* server.Serve returns ErrServerClosed once Shutdown has closed the
\* listener, and the deferred wg.Done() runs.
WorkerServeReturn(w) ==
    /\ ~exited
    /\ workerPc[w] = "serving"
    /\ Closed(w)
    /\ workerPc' = [workerPc EXCEPT ![w] = "done"]
    /\ wg' = wg - 1
    /\ UNCHANGED <<radixRoot, staticRoutes, nRoutes, recovery, notFound, exited, ctxs,
                   pool, req, middlewares, ready, stop, servers, mainPc, server, call, rateVars>>

\* <-stop
ReceiveStop ==
    /\ ~exited
    /\ mainPc = "waitStop"
    /\ stop = 1
    /\ stop' = 0
    /\ mainPc' = "setReady"
    /\ UNCHANGED <<radixRoot, staticRoutes, nRoutes, recovery, notFound, exited, ctxs,
                   pool, req, middlewares, ready, servers, wg, workerPc, server, call, rateVars>>

\* SetReady(ready)
SetReady(b) ==
    /\ ready' = b
    /\ UNCHANGED <<radixRoot, staticRoutes, nRoutes, recovery, notFound, exited, ctxs,
                   pool, req, middlewares, stop, servers, wg, workerPc, server, call, rateVars>>

\* r.SetReady(false) after <-stop
SetNotReady ==
    /\ ~exited
    /\ mainPc = "setReady"
    /\ mainPc' = "shutdown"
    /\ SetReady(FALSE)

\* mu.Lock(); for every server of the slice, go s.Shutdown(shutdownCtx);
\* mu.Unlock()
StartShutdowns ==
    /\ ~exited
    /\ mainPc = "shutdown"
    /\ server' = [w \in Workers |->
                    IF w \in Range(servers) THEN [server[w] EXCEPT !.shutdown = "asked"]
                    ELSE server[w]]
    /\ mainPc' = "wait"
    /\ UNCHANGED <<radixRoot, staticRoutes, nRoutes, recovery, notFound, exited, ctxs,
                   pool, req, middlewares, ready, stop, servers, wg, workerPc, call, rateVars>>

\* s.Shutdown begins: the server is marked as shutting down and its listener
\* is closed.
ShutdownBegin(w) ==
    /\ ~exited
    /\ server[w].shutdown = "asked"
    /\ server' = [server EXCEPT ![w].shutdown = "progress"]
    /\ UNCHANGED <<radixRoot, staticRoutes, nRoutes, recovery, notFound, exited, ctxs,
                   pool, req, middlewares, ready, stop, servers, wg, mainPc, workerPc,
                   call, rateVars>>

\* s.Shutdown returns: every connection is idle and closed, or shutdownCtx
\* has expired or was cancelled.
ShutdownEnd(w) ==
    /\ ~exited
    /\ server[w].shutdown = "progress"
    /\ server' = [server EXCEPT ![w].shutdown = "done"]
    /\ UNCHANGED <<radixRoot, staticRoutes, nRoutes, recovery, notFound, exited, ctxs,
                   pool, req, middlewares, ready, stop, servers, wg, mainPc, workerPc,
                   call, rateVars>>

\* wg.Wait() returns, and MultiListenAndServe with it.
WaitReturn ==
    /\ ~exited
    /\ mainPc = "wait"
    /\ wg = 0
    /\ mainPc' = "returned"
    /\ UNCHANGED <<radixRoot, staticRoutes, nRoutes, recovery, notFound, exited, ctxs,
                   pool, req, middlewares, ready, stop, servers, wg, workerPc, server,
                   call, rateVars>>

\* The server of worker w takes new connections.
Accepting(w) == workerPc[w] = "serving" /\ ~Closed(w)

ReadyPath == <<"/", "ready">>

\* A server accepts GET /ready and calls Handler().
Accept(r) ==
    /\ \E w \in Workers : Accepting(w)
    /\ ServeBegin(r, "GET", ReadyPath)

\* Ready() while the table is empty.
ReadyOnce == nRoutes = 0 /\ Ready

NextLife ==
    \/ ReadyOnce
    \/ \E reuse \in BOOLEAN : MultiListenAndServe(reuse)
    \/ Signal
    \/ \E w \in Workers, ok \in BOOLEAN : WorkerListen(w, ok)
    \/ \E w \in Workers : WorkerAppend(w)
    \/ \E w \in Workers : WorkerServe(w)
    \/ \E w \in Workers : WorkerServeReturn(w)
    \/ ReceiveStop
    \/ SetNotReady
    \/ StartShutdowns
    \/ \E w \in Workers : ShutdownBegin(w)
    \/ \E w \in Workers : ShutdownEnd(w)
    \/ WaitReturn
    \/ Accept(1)
    \/ ServeRun(1, {Plain}, {Plain}, {Plain})
    \/ ServeReturn(1)

SpecLife == Init /\ [][NextLife]_vars

\* The goroutines of MultiListenAndServe are scheduled fairly: a step that a
\* goroutine can take is taken in the end.  The signal and the requests are
\* the environment's.
FairLife ==
    /\ \A w \in Workers : WF_vars(\E ok \in BOOLEAN : WorkerListen(w, ok))
    /\ \A w \in Workers : WF_vars(WorkerAppend(w))
    /\ \A w \in Workers : WF_vars(WorkerServe(w))
    /\ \A w \in Workers : WF_vars(WorkerServeReturn(w))
    /\ WF_vars(ReceiveStop)
    /\ WF_vars(SetNotReady)
    /\ WF_vars(StartShutdowns)
    /\ \A w \in Workers : WF_vars(ShutdownBegin(w))
    /\ \A w \in Workers : WF_vars(ShutdownEnd(w))
    /\ WF_vars(WaitReturn)
    /\ WF_vars(ServeRun(1, {Plain}, {Plain}, {Plain}))

SpecLifeFair == Init /\ [][NextLife]_vars /\ FairLife

(***************************************************************************)
(* Claims about readiness and shutdown.                                    *)
(***************************************************************************)
\* MultiListenAndServe has handled the termination signal: it has received
\* it and has run SetReady(false).
Handled == mainPc \in {"shutdown", "wait", "returned"}

\* The server of worker w has been asked to shut down.
ShutdownAsked(w) == server[w].shutdown # "no"

ReadyOk == Write(WriteHeader(NewWriter, 200), "ok")

ReadyDown == httpError(NewWriter, "shutting down", 503)

\* C27: with Ready() enabled, GET /ready is answered 200 "ok" before the
\* termination signal is handled and 503 after it; the readiness flag is
\* false before any server is asked to shut down, and once false it is never
\* set back to true.
C27_ReadyFollowsSignal ==
    /\ [](\A w \in Workers : ShutdownAsked(w) => ~ready)
    /\ [][/\ ~ready => ~ready'
          /\ \A r \in 1..MaxInFlight :
                /\ req[r].pc = "acquired"
                /\ req'[r].pc = "done"
                /\ req'[r].handler = ReadyFn
                => req'[r].w = IF Handled THEN ReadyDown ELSE ReadyOk]_vars

\* A /ready request was answered 503 after the signal was handled, while a
\* server had been asked to shut down.
C27_Witness ==
    /\ Handled
    /\ ~ready
    /\ \E w \in Workers : ShutdownAsked(w)
    /\ Done(1)
    /\ req[1].handler = ReadyFn
    /\ req[1].w = ReadyDown

\* C28: after a termination signal every server that a worker goroutine
\* created is asked to shut down and MultiListenAndServe returns in the end,
\* under every interleaving of the workers with the signal.
C28_SignalShutsDownAndReturns ==
    (stop = 1) ~> (exited \/ (mainPc = "returned"
                              /\ \A w \in Workers : server[w].created => ShutdownAsked(w)))

\* C29: MultiListenAndServe does not return while the shutdown of a server is
\* in progress.
C29_NoReturnDuringShutdown ==
    mainPc = "returned" =>
        \A w \in Workers : server[w].shutdown \notin {"asked", "progress"}

(***************************************************************************)
(* Claims about the trailing slash.                                        *)
(***************************************************************************)
SlashTemplates ==
    { <<"/", "t">>,
      <<"/", "t", "/">>,
      <<"/", "a", "/", "<", "x", ">">>,
      <<"/", "a", "/", "<", "x", ">", "/">> }

SlashPaths ==
    { <<"/", "t">>,
      <<"/", "t", "/">>,
      <<"/", "a", "/", "1">>,
      <<"/", "a", "/", "1", "/">> }

\* Templates and paths with and without a trailing slash.
NextSlash ==
    \/ \E url \in SlashTemplates : HandleFuncUpTo(MaxRoutes, url, <<"GET">>)
    \/ \E path \in SlashPaths : ServeBegin(1, "GET", path)
    \/ ServeRun(1, {Plain}, {Plain}, {Plain})

SpecSlash == Init /\ [][NextSlash]_vars

EndsInSlash(s) == Len(s) > 0 /\ s[Len(s)] = "/"

\* C30: route matching is strict about the trailing slash: a request is
\* dispatched to a route only when the path and the route's template both end
\* in "/" or both do not; /test/ is never dispatched to the route /test.
C30_StrictTrailingSlash ==
    \A r \in 1..MaxInFlight :
        Dispatched(r) =>
            \A e \in Registered :
                e.Handler = req[r].handler =>
                    (EndsInSlash(req[r].path) <=> EndsInSlash(e.Route))

(***************************************************************************)
(* Claims about the named matchers.                                        *)
(***************************************************************************)
MaxSegmentLen == 2

\* The state before anything is registered or served, with the call c of a
\* pure function under way.
InitWithCall(c) ==
    /\ radixRoot = EmptyNode
    /\ staticRoutes = [u \in {} |-> NoEntry]
    /\ nRoutes = 0
    /\ recovery = "nil"
    /\ notFound = "nil"
    /\ exited = FALSE
    /\ ctxs = <<>>
    /\ pool = <<>>
    /\ req = [r \in 1..MaxInFlight |-> IdleReq]
    /\ middlewares = <<>>
    /\ ready = TRUE
    /\ stop = 0
    /\ servers = <<>>
    /\ wg = 0
    /\ mainPc = "notCalled"
    /\ workerPc = [w \in 1..NumCPU |-> "notStarted"]
    /\ server = [w \in 1..NumCPU |-> NoServer]
    /\ call = c
    /\ clock = 0
    /\ lastRequest = [k \in {} |-> 0]
    /\ limiter = [p \in 1..MaxInFlight |-> [pc |-> "idle"]]
    /\ answers = <<>>

\* The characters of the segments tried: ASCII letters, a digit, "_" and
\* "-", and a letter and a digit outside ASCII.
MatchAlphabet == {"a", "g", "Z", "5", "_", "-", "e-acute", "arabic-indic-3"}

MatchSegments == UNION {[1..n -> MatchAlphabet] : n \in 0..MaxSegmentLen}

\* The table of PatternMatchers read from the matcher to its regular
\* expression.
MatcherRegex ==
    [fn \in {"isLowerAlpha", "isUpperAlpha", "isAlpha", "isDigits", "isAlnum", "isWord",
             "isSlugSafe", "isSlug", "isHex", "isUpperAlnum", "alwaysTrue"} |->
        CASE fn = "isLowerAlpha" -> "[a-z]+"
          [] fn = "isUpperAlpha" -> "[A-Z]+"
          [] fn = "isAlpha" -> "[a-zA-Z]+"
          [] fn = "isDigits" -> "[0-9]+"
          [] fn = "isAlnum" -> "[a-zA-Z0-9]+"
          [] fn = "isWord" -> "\\w+"
          [] fn = "isSlugSafe" -> "[\\w\\-]+"
          [] fn = "isSlug" -> "[a-z0-9\\-]+"
          [] fn = "isHex" -> "[a-fA-F0-9]+"
          [] fn = "isUpperAlnum" -> "[A-Z0-9]+"
          [] fn = "alwaysTrue" -> ".*"]

\* The characters a class of the regexp package stands for: ranges and \w
\* are ASCII.
regexClass(class) ==
    CASE class = "[a-z]+" -> LowerChars
      [] class = "[A-Z]+" -> UpperChars
      [] class = "[a-zA-Z]+" -> LowerChars \cup UpperChars
      [] class = "[0-9]+" -> DigitChars
      [] class = "[a-zA-Z0-9]+" -> LowerChars \cup UpperChars \cup DigitChars
      [] class = "\\w+" -> LowerChars \cup UpperChars \cup DigitChars \cup {"_"}
      [] class = "[\\w\\-]+" -> LowerChars \cup UpperChars \cup DigitChars \cup {"_", "-"}
      [] class = "[a-z0-9\\-]+" -> LowerChars \cup DigitChars \cup {"-"}
      [] class = "[a-fA-F0-9]+" ->
             DigitChars \cup {"a", "b", "c", "d", "e", "f"} \cup {"A", "B", "C", "D", "E", "F"}
      [] class = "[A-Z0-9]+" -> UpperChars \cup DigitChars

\* regexp's match of "^" + re + "$" against s, for a class with "+" and for
\* ".*".
regexWholeMatch(re, s) ==
    IF re = ".*" THEN TRUE
    ELSE s # <<>> /\ \A i \in 1..Len(s) : s[i] \in regexClass(re)

InitMatch ==
    \E fn \in DOMAIN MatcherRegex, s \in MatchSegments :
        InitWithCall([pc |-> "called", fn |-> fn, s |-> s, result |-> FALSE])

\* fn(s) for a matcher fn
CallMatcher ==
    /\ call.pc = "called"
    /\ call' = [call EXCEPT !.pc = "returned", !.result = callNamedMatcher(call.fn, call.s)]
    /\ UNCHANGED <<radixRoot, staticRoutes, nRoutes, recovery, notFound, exited, ctxs,
                   pool, req, middlewares, lifeVars, rateVars>>

NextMatch == CallMatcher

SpecMatch == InitMatch /\ [][NextMatch]_vars

\* C31: each named matcher accepts exactly the strings that its regular
\* expression in the table accepts as a whole segment, for every string over
\* an alphabet with letters and digits outside ASCII, the empty string
\* included.
C31_MatcherIsItsRegex ==
    call.pc = "returned" =>
        (call.result <=> regexWholeMatch(MatcherRegex[call.fn], call.s))

(***************************************************************************)
(* The rate limiter: RateLimit as the steps of a goroutine between its     *)
(* accesses to requestCounter.lastRequest.                                 *)
(***************************************************************************)
MaxTime == 3

MaxCalls == 3

\* The requests RateLimit is called for: two clients asking GET /a.
RateRequests ==
    { [method |-> "GET", ip |-> "10.0.0.1", path |-> "/a"],
      [method |-> "GET", ip |-> "10.0.0.2", path |-> "/a"] }

Thresholds == {1, 4}

makeKey(r) == <<r.method, "|", r.ip, "|", r.path>>

\* time passes
Tick ==
    /\ clock < MaxTime
    /\ clock' = clock + 1
    /\ UNCHANGED <<radixRoot, staticRoutes, nRoutes, recovery, notFound, exited, ctxs,
                   pool, req, middlewares, lifeVars, call, lastRequest, limiter, answers>>

\* RateLimit(w, r, threshold) is called by goroutine p: now := time.Now();
\* key := makeKey(r)
RateLimitBegin(p, r, threshold) ==
    /\ limiter[p].pc = "idle"
    /\ limiter' = [limiter EXCEPT ![p] =
            [pc |-> "load", key |-> makeKey(r), threshold |-> threshold, now |-> clock]]
    /\ UNCHANGED <<radixRoot, staticRoutes, nRoutes, recovery, notFound, exited, ctxs,
                   pool, req, middlewares, lifeVars, call, clock, lastRequest, answers>>

\* RateLimitBegin while fewer than n calls have been made.
RateLimitUpTo(n, p, r, threshold) ==
    /\ Len(answers) + Cardinality({q \in DOMAIN limiter : limiter[q].pc # "idle"}) < n
    /\ RateLimitBegin(p, r, threshold)

\* requestCounter.lastRequest.Load(key) and the test of the time found: the
\* call answers 429 with Retry-After and returns true, or goes on to Store.
RateLimitLoad(p) ==
    /\ limiter[p].pc = "load"
    /\ LET c == limiter[p]
       IN  IF c.key \in DOMAIN lastRequest /\ c.now - lastRequest[c.key] < c.threshold
           THEN /\ answers' = Append(answers,
                        [key |-> c.key, now |-> c.now, threshold |-> c.threshold,
                         limited |-> TRUE, status |-> 429, retryAfter |-> "1"])
                /\ limiter' = [limiter EXCEPT ![p] = [pc |-> "idle"]]
           ELSE /\ limiter' = [limiter EXCEPT ![p].pc = "store"]
                /\ UNCHANGED answers
    /\ UNCHANGED <<radixRoot, staticRoutes, nRoutes, recovery, notFound, exited, ctxs,
                   pool, req, middlewares, lifeVars, call, clock, lastRequest>>

\* cleanupOldRequests(now, ttl): every key whose time is before now - ttl is
\* deleted.
cleanupOldRequests(m, now, ttl) ==
    [k \in {k \in DOMAIN m : ~(m[k] < now - ttl)} |-> m[k]]

\* requestCounter.lastRequest.Store(key, now)
Store(m, key, now) == [k \in DOMAIN m \cup {key} |-> IF k = key THEN now ELSE m[k]]

\* Store(key, now); cleanupOldRequests(now, threshold*2); return false
RateLimitStore(p) ==
    /\ limiter[p].pc = "store"
    /\ LET c == limiter[p]
       IN  /\ lastRequest' = cleanupOldRequests(Store(lastRequest, c.key, c.now),
                                                c.now, c.threshold * 2)
           /\ answers' = Append(answers,
                   [key |-> c.key, now |-> c.now, threshold |-> c.threshold,
                    limited |-> FALSE, status |-> 0, retryAfter |-> ""])
    /\ limiter' = [limiter EXCEPT ![p] = [pc |-> "idle"]]
    /\ UNCHANGED <<radixRoot, staticRoutes, nRoutes, recovery, notFound, exited, ctxs,
                   pool, req, middlewares, lifeVars, call, clock>>

\* One goroutine: calls of RateLimit one after the other, for two keys and
\* two thresholds.
NextRate ==
    \/ Tick
    \/ \E r \in RateRequests, threshold \in Thresholds : RateLimitUpTo(MaxCalls, 1, r, threshold)
    \/ RateLimitLoad(1)
    \/ RateLimitStore(1)

SpecRate == Init /\ [][NextRate]_vars

RaceRequest == [method |-> "GET", ip |-> "10.0.0.1", path |-> "/a"]

RaceThreshold == 4

\* Goroutines that call RateLimit for the same key at the same time.
NextRateRace ==
    \/ Tick
    \/ \E p \in 1..MaxInFlight : RateLimitUpTo(MaxCalls, p, RaceRequest, RaceThreshold)
    \/ \E p \in 1..MaxInFlight : RateLimitLoad(p)
    \/ \E p \in 1..MaxInFlight : RateLimitStore(p)

SpecRateRace == Init /\ [][NextRateRace]_vars

(***************************************************************************)
(* Claims about the rate limiter.                                          *)
(***************************************************************************)
\* A call with the key of call i was admitted before it, less than call i's
\* threshold before.
AdmittedLately(i) ==
    \E j \in 1..(i - 1) :
        /\ answers[j].key = answers[i].key
        /\ ~answers[j].limited
        /\ answers[i].now - answers[j].now < answers[i].threshold

\* C32: RateLimit limits per client, method and path: a call returns true
\* and answers 429 with Retry-After if and only if a call with the same key
\* was admitted less than threshold before it; otherwise it records the
\* current time and returns false.  Calls for other keys, with any other
\* threshold, do not change the outcome for a key.
C32_RateLimitPerKey ==
    /\ \A i \in 1..Len(answers) :
          /\ answers[i].limited <=> AdmittedLately(i)
          /\ answers[i].limited => answers[i].status = 429 /\ answers[i].retryAfter # ""
    /\ answers # <<>> /\ ~Last(answers).limited =>
          /\ Last(answers).key \in DOMAIN lastRequest
          /\ lastRequest[Last(answers).key] = Last(answers).now

\* C39: of several RateLimit calls with the same key that run within one
\* threshold window, at most one is admitted.
C39_OneAdmittedPerWindow ==
    \A i, j \in 1..Len(answers) :
        /\ i # j
        /\ answers[i].key = answers[j].key
        /\ answers[i].now - answers[j].now < RaceThreshold
        /\ answers[j].now - answers[i].now < RaceThreshold
        => answers[i].limited \/ answers[j].limited

(***************************************************************************)
(* Claims about Context.reset.                                             *)
(***************************************************************************)
\* The Contexts reset is called on: with and without Params, Segments and
\* Data, Data nil or not, and slices of capacities around the ceiling.
ResetCaps == {NewCap, CapCeiling, CapCeiling + 1, 2 * CapCeiling}

ResetContexts ==
    { [Params |-> ps, Segments |-> sg, Entries |-> <<>>, Data |-> d.m,
       paramMap |-> NilParamMap, aborted |-> ab, DataIsNil |-> d.isNil,
       capParams |-> cp, capSegments |-> cs, capEntries |-> ce] :
        ps \in { <<>>, <<[Key |-> <<"a">>, Value |-> <<"1">>],
                        [Key |-> <<"b">>, Value |-> <<"2">>]>> },
        sg \in { <<>>, << <<"s", "e", "g">> >> },
        d \in { [isNil |-> TRUE, m |-> NoData],
                [isNil |-> FALSE, m |-> NoData],
                [isNil |-> FALSE, m |-> [k \in {<<"k">>} |-> <<"v">>]] },
        ab \in BOOLEAN,
        cp \in ResetCaps, cs \in ResetCaps, ce \in ResetCaps }

InitReset ==
    \E c \in ResetContexts :
        InitWithCall([pc |-> "called", c |-> c, result |-> c])

\* c.reset()
CallReset ==
    /\ call.pc = "called"
    /\ call' = [call EXCEPT !.pc = "returned", !.result = reset(call.c)]
    /\ UNCHANGED <<radixRoot, staticRoutes, nRoutes, recovery, notFound, exited, ctxs,
                   pool, req, middlewares, lifeVars, rateVars>>

NextReset == CallReset

SpecReset == InitReset /\ [][NextReset]_vars

\* reset has returned for a Context that held Params, Segments and Data.
ResetOfFull ==
    /\ call.pc = "returned"
    /\ call.c.Params # <<>>
    /\ call.c.Segments # <<>>
    /\ DOMAIN call.c.Data # {}

\* C33: after reset() on a Context that held Params, Segments and
\* Data, Params and Segments are empty and Data is nil.
C33_ResetLeavesDataNil ==
    ResetOfFull =>
        /\ call.result.Params = <<>>
        /\ call.result.Segments = <<>>
        /\ call.result.DataIsNil

\* C36: after every reset the capacity of each of Params, Segments and
\* Entries is at most 1024: a slice whose capacity had grown above the
\* ceiling is replaced by a new small one.
C36_ResetBoundsCapacity ==
    call.pc = "returned" =>
        /\ call.result.capParams <= 1024
        /\ call.result.capSegments <= 1024
        /\ call.result.capEntries <= 1024
        /\ call.c.capParams > 1024 => call.result.capParams = NewCap
        /\ call.c.capSegments > 1024 => call.result.capSegments = NewCap
        /\ call.c.capEntries > 1024 => call.result.capEntries = NewCap

\* reset has replaced a slice that had grown above the ceiling and has kept
\* one that had not.
C36_Witness ==
    /\ call.pc = "returned"
    /\ call.c.capSegments = 2 * CapCeiling
    /\ call.result.capSegments = NewCap
    /\ call.c.capParams = CapCeiling
    /\ call.result.capParams = CapCeiling

(***************************************************************************)
(* Claims about the shape of the radix tree after inserts.                 *)
(***************************************************************************)
\* Every node below n, with the concatenation of the prefixes from the root
\* (its full key) and the child indices that lead to it.
RECURSIVE NodesUnder(_, _, _)
NodesUnder(n, k, path) ==
    {[key |-> k \o n.prefix, path |-> path, node |-> n]}
        \cup UNION { NodesUnder(n.children[c], k \o n.prefix, Append(path, c)) :
                         c \in DOMAIN n.children }

TreeNodes == NodesUnder(radixRoot, <<>>, <<>>)

\* No two children of n start with the same byte: the literal-led ones differ
\* pairwise and at most one starts with "*".
ChildrenDistinct(n) ==
    \A c \in DOMAIN n.children, d \in DOMAIN n.children :
        (c # d /\ Len(n.children[c].prefix) > 0 /\ Len(n.children[d].prefix) > 0) =>
            n.children[c].prefix[1] # n.children[d].prefix[1]

\* The places (node, index) of the tree that hold the entry of insert call h.
PlacesOf(h) ==
    UNION { { <<x.path, i>> : i \in {j \in DOMAIN x.node.entries :
                                         x.node.entries[j].Handler = h} } :
                x \in TreeNodes }

\* Every entry sits once, at the node whose full key is the key it was
\* inserted under, and a node holds entries exactly when it is a leaf.
EntriesKept ==
    /\ \A x \in TreeNodes :
          \A i \in DOMAIN x.node.entries : x.node.entries[i].Route = x.key
    /\ \A h \in 1..nRoutes : Cardinality(PlacesOf(h)) = 1
    /\ \A x \in TreeNodes : x.node.entries # <<>> => x.node.isLeaf

IsPrefixOf(a, b) == Len(a) <= Len(b) /\ a = SubSeq(b, 1, Len(a))

\* new is old after one insert: every child of old is still at its index,
\* either with its prefix (and its entries, in order, and leaf flag), or split:
\* the shared prefix stays on it and its first child is the old child with the
\* remainder as prefix and the old children, leaf flag and entries.
RECURSIVE SplitKeeps(_, _)
SplitKeeps(old, new) ==
    /\ Len(new.children) >= Len(old.children)
    /\ \A c \in DOMAIN old.children :
          LET o == old.children[c]
              n == new.children[c]
          IN  IF n.prefix = o.prefix
              THEN /\ IsPrefixOf(o.entries, n.entries)
                   /\ o.isLeaf => n.isLeaf
                   /\ SplitKeeps(o, n)
              ELSE /\ Len(n.prefix) > 0
                   /\ Len(n.prefix) < Len(o.prefix)
                   /\ IsPrefixOf(n.prefix, o.prefix)
                   /\ Len(n.children) \in {1, 2}
                   /\ n.children[1] =
                          [o EXCEPT !.prefix = SubSeq(o.prefix, Len(n.prefix) + 1,
                                                      Len(o.prefix))]
                   /\ \A i \in DOMAIN n.entries : n.entries[i] \notin Range(o.entries)

\* C34: after any sequence of inserts the children of every node start with
\* pairwise-distinct bytes (so at most one is wildcard-led), every inserted
\* entry is in the tree exactly once, under the full key it was inserted with,
\* and an insert that splits a child leaves the shared prefix on that child
\* and moves the remainder with the old entries, children and leaf flag to
\* one new child.
C34_InsertKeepsTreeShape ==
    /\ [](\A x \in TreeNodes : ChildrenDistinct(x.node))
    /\ []EntriesKept
    /\ [][SplitKeeps(radixRoot, radixRoot')]_vars

\* Three inserts that split "/a" into "/" with the children "a" and "*", and
\* put a second key below "a".
C34_Witness ==
    /\ nRoutes = MaxKeys
    /\ Len(radixRoot.children) = 1
    /\ radixRoot.children[1].prefix = <<"/">>
    /\ ~radixRoot.children[1].isLeaf
    /\ Len(radixRoot.children[1].children) = 2
    /\ radixRoot.children[1].children[1].prefix = <<"a">>
    /\ radixRoot.children[1].children[1].isLeaf
    /\ radixRoot.children[1].children[1].children # <<>>
    /\ radixRoot.children[1].children[2].prefix = <<"*">>

(***************************************************************************)
(* Claims about what a request writes.                                     *)
(***************************************************************************)
ServeTemplates ==
    { <<"/", "a">>, <<"/", "a", "/", "<", "x", ":", "isDigits", ">">>,
      <<"/", "<", "y", ">", "/", "<", "x", ":", "isDigits", ">">> }

ServePaths ==
    { <<"/", "a">>, <<"/", "a", "/", "1">>, <<"/", "a", "/", "b">>, <<"/", "b">>,
      <<"/", "/", "1">> }

\* Any table over ServeTemplates with a middleware, handlers that may panic.
NextServe ==
    \/ \E url \in ServeTemplates, methods \in MethodLists :
          HandleFuncUpTo(MaxRoutes, url, methods)
    \/ UseUpTo(1, "m1")
    \/ Recovery
    \/ NotFound
    \/ \E method \in {"GET", "POST"}, path \in ServePaths : ServeBegin(1, method, path)
    \/ ServeRun(1, {Plain, Panics}, {Plain, Panics}, {Plain, Panics})

SpecServe == Init /\ [][NextServe]_vars

\* A step of some ServeHTTP call: its start or the rest of it.
ServeStep ==
    \E r \in DOMAIN req :
        /\ req'[r].pc # req[r].pc
        /\ req'[r].pc \in {"acquired", "done"}

\* C35: a step of ServeHTTP, whichever way the request goes (static hit, radix
\* search, candidate scan, 404, 405, panic), leaves the radix tree with every
\* node's entries, the static-route map and the middleware list as they were.
C35_ServeNeverWritesTable ==
    [][ServeStep => /\ radixRoot' = radixRoot
                    /\ staticRoutes' = staticRoutes
                    /\ middlewares' = middlewares]_vars

\* A request served from a table with a static route, a radix route and a
\* middleware, by the radix route's handler, which panicked.
C35_Witness ==
    /\ DOMAIN staticRoutes # {}
    /\ radixRoot.children # <<>>
    /\ middlewares # <<>>
    /\ Done(1)
    /\ req[1].kind = "radix"
    /\ req[1].bodyPanic # "none"

(***************************************************************************)
(* Claims about the candidate loop's reads of ctx.Segments.                *)
(***************************************************************************)
ScanTemplates ==
    { <<"/", "a", "/", "<", "x", ":", "isDigits", ">">>,
      <<"/", "<", "y", ">", "/", "<", "x", ":", "isDigits", ">">>,
      <<"/", "<", "y", ":", "isDigits", ">", "/", "b">>,
      <<"/", "<", "y", ">", "/", "b">> }

ScanPaths ==
    { <<"/", "a", "/", "1">>, <<"/", "1", "/", "b">>, <<"/", "a", "/", "/", "1">>,
      <<"/", "/", "1">>, <<"/", "/", "b">>, <<"/", "a", "/">>, <<"/", "a">> }

\* Tables of parameterized templates, paths with and without empty segments.
NextScan ==
    \/ \E url \in ScanTemplates : HandleFuncUpTo(MaxRoutes, url, <<"GET">>)
    \/ Recovery
    \/ \E path \in ScanPaths : ServeBegin(1, "GET", path)
    \/ ServeRun(1, {Plain}, {Plain}, {Plain})

SpecScan == Init /\ [][NextScan]_vars

\* C37: the pattern loop of the candidate scan reads ctx.Segments[depth] only
\* for depth below len(ctx.Segments), whatever the table and the path: no
\* request ends in the index-out-of-range panic of that read, so none is
\* answered 500 without a handler having panicked.
C37_ScanStaysInBounds ==
    \A r \in DOMAIN req :
        Done(r) =>
            /\ req[r].kind # "panic"
            /\ req[r].bodyPanic = "none"
            /\ req[r].w.status # 500

(***************************************************************************)
(* Claims about Param and ParamMap within one request.                     *)
(***************************************************************************)
AgreeTemplates ==
    { <<"/", "a">>,
      <<"/", "a", "/", "<", "x", ">">>,
      <<"/", "<", "y", ">", "/", "<", "x", ">">>,
      <<"/", "<", "x", ">", "/", "<", "x", ">">>,
      <<"/", "<", "x", ":", "isDigits", ">", "/", "<", "x", ">">> }

AgreePaths ==
    { <<"/", "a">>, <<"/", "a", "/", "b">>, <<"/", "1", "/", "b">>, <<"/", "b", "/", "b">> }

\* A handler that calls Param for every name of ParamNames, then ParamMap.
AsksBoth == [NoUse EXCEPT !.param = TRUE, !.paramMap = TRUE]

ServeRunAgree(r) == ServeRest(r, {Plain}, {Plain}, {Plain}, {AsksBoth})

NextAgree ==
    \/ \E url \in AgreeTemplates : HandleFuncUpTo(MaxRoutes, url, <<"GET">>)
    \/ \E path \in AgreePaths : ServeBegin(1, "GET", path)
    \/ ServeRunAgree(1)

SpecAgree == Init /\ [][NextAgree]_vars

\* The request r was served by a route handler that called Param and ParamMap.
AskedBoth(r) ==
    /\ Asked(r)
    /\ ~ctxs[req[r].ctx].paramMap.isNil

\* C38: within one request Param(name) returns (v, true) exactly when
\* ParamMap()[name] is present with the value v, for every name, for Param
\* called before ParamMap and called again after it, also when the template
\* uses one parameter name in two segments.
C38_ParamAgreesWithParamMap ==
    \A r \in DOMAIN req :
        AskedBoth(r) =>
            LET c == ctxs[req[r].ctx]
                m == c.paramMap.m
            IN  \A n \in ParamNames :
                    /\ req[r].params[n].ok = (n \in DOMAIN m)
                    /\ n \in DOMAIN m => req[r].params[n].value = m[n]
                    /\ Param(c, n) = req[r].params[n]

=============================================================================
